---- MODULE Spec2Model ----
(***************************************************************************)
(* Meeting pipeline orchestrator (MeetingPipelineServiceImpl) and speaker  *)
(* diarization engine (SpeakerDiarizationServiceImpl) of zinc-ai.          *)
(*                                                                         *)
(* Numbers that the source keeps as fractions in [0,1] (speakingConfidence,*)
(* expressionConfidence, segment confidence) are kept in tenths: 3 is 0.3, *)
(* 9 is 0.9.  A JS Map or Set is a sequence in insertion order, which is   *)
(* the order its for..of loop visits.                                      *)
(***************************************************************************)
EXTENDS Integers, Sequences, FiniteSets, TLC

\* ------------------------------------------------------------------------
\* Bounds of the model
\* ------------------------------------------------------------------------
MaxSegs == 2
MaxLongSegs == 3
MaxObs == 2
MaxBuffered == 1

\* ------------------------------------------------------------------------
\* Values
\* ------------------------------------------------------------------------
NoLabel == ""        \* speakerLabel undefined (falsy)
NoName == ""         \* participantName undefined (falsy)
NoConfidence == -1   \* confidence undefined
\* headPose undefined; a head pose is [present |-> TRUE, yaw, pitch] in degrees
NoPose == [present |-> FALSE, yaw |-> 0, pitch |-> 0]

\* ------------------------------------------------------------------------
\* JS Map / Set in insertion order
\* ------------------------------------------------------------------------
MapHas(m, k) == \E i \in 1..Len(m) : m[i][1] = k

MapGet(m, k) == m[CHOOSE i \in 1..Len(m) : m[i][1] = k][2]

MapGetOr(m, k, d) == IF MapHas(m, k) THEN MapGet(m, k) ELSE d

MapSet(m, k, v) ==
    IF MapHas(m, k)
    THEN [i \in 1..Len(m) |-> IF m[i][1] = k THEN <<k, v>> ELSE m[i]]
    ELSE Append(m, <<k, v>>)

\* variant of the loop below with v >= max: the last of the largest entries wins
RECURSIVE MapArgMaxLast(_, _, _, _)
MapArgMaxLast(m, i, best, max) ==
    IF i > Len(m) THEN best
    ELSE IF m[i][2] >= max THEN MapArgMaxLast(m, i + 1, m[i][1], m[i][2])
    ELSE MapArgMaxLast(m, i + 1, best, max)

\* for (const [k, v] of m) if (v > max) { max = v; best = k }  with max = 0
RECURSIVE MapArgMax(_, _, _, _)
MapArgMax(m, i, best, max) ==
    IF i > Len(m) THEN best
    ELSE IF m[i][2] > max THEN MapArgMax(m, i + 1, m[i][1], m[i][2])
    ELSE MapArgMax(m, i + 1, best, max)

\* ------------------------------------------------------------------------
\* Array.prototype.sort with a numeric comparator: stable
\* ------------------------------------------------------------------------
RECURSIVE InsertByKey(_, _)
InsertByKey(sorted, p) ==
    IF sorted = <<>> THEN <<p>>
    ELSE IF sorted[Len(sorted)][1] <= p[1] THEN Append(sorted, p)
    ELSE Append(InsertByKey(SubSeq(sorted, 1, Len(sorted) - 1), p),
                sorted[Len(sorted)])

RECURSIVE SortPairs(_)
SortPairs(s) ==
    IF s = <<>> THEN <<>>
    ELSE InsertByKey(SortPairs(SubSeq(s, 1, Len(s) - 1)), s[Len(s)])

\* variant of the sort below that is not stable: equal keys come out reversed
RECURSIVE InsertBeforeEqual(_, _)
InsertBeforeEqual(sorted, p) ==
    IF sorted = <<>> THEN <<p>>
    ELSE IF sorted[Len(sorted)][1] < p[1] THEN Append(sorted, p)
    ELSE Append(InsertBeforeEqual(SubSeq(sorted, 1, Len(sorted) - 1), p),
                sorted[Len(sorted)])

RECURSIVE SortPairsUnstable(_)
SortPairsUnstable(s) ==
    IF s = <<>> THEN <<>>
    ELSE InsertBeforeEqual(SortPairsUnstable(SubSeq(s, 1, Len(s) - 1)), s[Len(s)])

sortTranscriptUnstable(segs) ==
    LET ps == SortPairsUnstable([i \in 1..Len(segs) |-> <<segs[i].startTime, segs[i]>>])
    IN  [i \in 1..Len(ps) |-> ps[i][2]]

sortTranscript(segs) ==
    LET ps == SortPairs([i \in 1..Len(segs) |-> <<segs[i].startTime, segs[i]>>])
    IN  [i \in 1..Len(ps) |-> ps[i][2]]

sortVisual(obs) ==
    LET ps == SortPairs([i \in 1..Len(obs) |-> <<obs[i].timestamp, obs[i]>>])
    IN  [i \in 1..Len(ps) |-> ps[i][2]]

\* ------------------------------------------------------------------------
\* diarize: helpers
\* ------------------------------------------------------------------------
InWindow(v, seg) == v.timestamp >= seg.startTime /\ v.timestamp <= seg.endTime

IsSpeakingObs(v) == v.isSpeaking /\ v.speakingConfidence > 3

overlappingObs(visual, seg) ==
    LET Test(v) == InWindow(v, seg) IN SelectSeq(visual, Test)

speakingObsOf(overlapping) == SelectSeq(overlapping, IsSpeakingObs)

\* for (const obs of list) scores.set(pid, (scores.get(pid) || 0) + conf)
RECURSIVE addScores(_, _, _)
addScores(scores, list, i) ==
    IF i > Len(list) THEN scores
    ELSE addScores(MapSet(scores, list[i].participantId,
                          MapGetOr(scores, list[i].participantId, 0)
                              + list[i].speakingConfidence),
                   list, i + 1)

\* first loop of buildSpeakerNameMap: names carried on observations
RECURSIVE carriedNames(_, _, _)
carriedNames(nameMap, observations, i) ==
    IF i > Len(observations) THEN nameMap
    ELSE LET obs == observations[i]
         IN  carriedNames(
                 IF obs.participantName # NoName /\ ~MapHas(nameMap, obs.participantId)
                 THEN MapSet(nameMap, obs.participantId, obs.participantName)
                 ELSE nameMap,
                 observations, i + 1)

\* the Set of participant ids, in first-seen order
RECURSIVE uniqueParticipants(_, _, _)
uniqueParticipants(acc, observations, i) ==
    IF i > Len(observations) THEN acc
    ELSE uniqueParticipants(
             IF \E j \in 1..Len(acc) : acc[j] = observations[i].participantId
             THEN acc ELSE Append(acc, observations[i].participantId),
             observations, i + 1)

\* variant of the second loop below whose nameIndex moves on for every participant
RECURSIVE knownNamesByPosition(_, _, _, _, _)
knownNamesByPosition(nameMap, pids, i, nameIndex, participantNames) ==
    IF i > Len(pids) THEN nameMap
    ELSE IF ~MapHas(nameMap, pids[i]) /\ nameIndex < Len(participantNames)
    THEN knownNamesByPosition(MapSet(nameMap, pids[i], participantNames[nameIndex + 1]),
                              pids, i + 1, nameIndex + 1, participantNames)
    ELSE knownNamesByPosition(nameMap, pids, i + 1, nameIndex + 1, participantNames)

\* second loop: the next unused known name
RECURSIVE knownNames(_, _, _, _, _)
knownNames(nameMap, pids, i, nameIndex, participantNames) ==
    IF i > Len(pids) THEN nameMap
    ELSE IF ~MapHas(nameMap, pids[i]) /\ nameIndex < Len(participantNames)
    THEN knownNames(MapSet(nameMap, pids[i], participantNames[nameIndex + 1]),
                    pids, i + 1, nameIndex + 1, participantNames)
    ELSE knownNames(nameMap, pids, i + 1, nameIndex, participantNames)

\* `Participant ${n}`
participantN(n) ==
    CASE n = 1 -> "Participant 1"
      [] n = 2 -> "Participant 2"
      [] n = 3 -> "Participant 3"
      [] OTHER -> "Participant 4"

\* third loop: `Participant ${unknownCount++}`
RECURSIVE unknownNames(_, _, _, _)
unknownNames(nameMap, pids, i, unknownCount) ==
    IF i > Len(pids) THEN nameMap
    ELSE IF ~MapHas(nameMap, pids[i])
    THEN unknownNames(MapSet(nameMap, pids[i], participantN(unknownCount)),
                      pids, i + 1, unknownCount + 1)
    ELSE unknownNames(nameMap, pids, i + 1, unknownCount)

buildSpeakerNameMap(observations, participantNames) ==
    LET pids == uniqueParticipants(<<>>, observations, 1)
        m1 == carriedNames(<<>>, observations, 1)
        m2 == knownNames(m1, pids, 1, 0, participantNames)
    IN  unknownNames(m2, pids, 1, 1)

\* segmentsByLabel: label -> its segments, labels in first-seen order
RECURSIVE segmentsByLabel(_, _, _)
segmentsByLabel(acc, transcript, i) ==
    IF i > Len(transcript) THEN acc
    ELSE LET seg == transcript[i]
         IN  segmentsByLabel(
                 IF seg.speakerLabel = NoLabel THEN acc
                 ELSE MapSet(acc, seg.speakerLabel,
                             Append(MapGetOr(acc, seg.speakerLabel, <<>>), seg)),
                 transcript, i + 1)

\* participantScores of one label: every segment adds its own speaking observations
RECURSIVE labelScores(_, _, _, _)
labelScores(scores, segments, visual, i) ==
    IF i > Len(segments) THEN scores
    ELSE labelScores(
             addScores(scores, speakingObsOf(overlappingObs(visual, segments[i])), 1),
             segments, visual, i + 1)

\* visual.find((v) => v.participantId === pid)?.participantName || dflt
firstNameOf(visual, pid, dflt) ==
    IF \E i \in 1..Len(visual) : visual[i].participantId = pid
    THEN LET i == CHOOSE i \in 1..Len(visual) :
                      /\ visual[i].participantId = pid
                      /\ \A j \in 1..(i - 1) : visual[j].participantId # pid
         IN  IF visual[i].participantName # NoName
             THEN visual[i].participantName ELSE dflt
    ELSE dflt

RECURSIVE buildLabelMap(_, _, _, _)
buildLabelMap(labelMap, byLabel, visual, i) ==
    IF i > Len(byLabel) THEN labelMap
    ELSE LET label == byLabel[i][1]
             scores == labelScores(<<>>, byLabel[i][2], visual, 1)
             bestPid == MapArgMax(scores, 1, "", 0)
         IN  buildLabelMap(
                 IF bestPid # ""
                 THEN MapSet(labelMap, label,
                             [participantId |-> bestPid,
                              name |-> firstNameOf(visual, bestPid, label)])
                 ELSE labelMap,
                 byLabel, visual, i + 1)

mapSpeakerLabelsToParticipants(transcript, visual) ==
    buildLabelMap(<<>>, segmentsByLabel(<<>>, transcript, 1), visual, 1)

\* ------------------------------------------------------------------------
\* diarize: expressions, engagement
\* ------------------------------------------------------------------------
RECURSIVE Gcd(_, _)
Gcd(a, b) == IF b = 0 THEN a ELSE Gcd(b, a % b)

\* the quotient n / d of two naturals, as a reduced fraction
Ratio(n, d) == LET g == Gcd(n, d) IN [num |-> n \div g, den |-> d \div g]

\* variant of roundPercent below that truncates
truncPercent(count, total) == (100 * count) \div total

\* Math.round((count / total) * 100), count and total naturals, total > 0
roundPercent(count, total) == (200 * count + total) \div (2 * total)

RECURSIVE countExpressions(_, _, _)
countExpressions(counts, observations, i) ==
    IF i > Len(observations) THEN counts
    ELSE countExpressions(
             MapSet(counts, observations[i].expression,
                    MapGetOr(counts, observations[i].expression, 0) + 1),
             observations, i + 1)

RECURSIVE sumExpressionConfidence(_, _)
sumExpressionConfidence(observations, i) ==
    IF i > Len(observations) THEN 0
    ELSE observations[i].expressionConfidence
             + sumExpressionConfidence(observations, i + 1)

analyzeExpressionsDuringSegment(observations) ==
    IF Len(observations) = 0
    THEN [dominant |-> "neutral",
          confidence |-> Ratio(5, 1),
          distribution |-> <<[expression |-> "neutral", percentage |-> 100]>>]
    ELSE LET counts == countExpressions(<<>>, observations, 1)
             total == Len(observations)
             entries == [i \in 1..Len(counts) |->
                            [expression |-> counts[i][1],
                             percentage |-> roundPercent(counts[i][2], total)]]
             ps == SortPairs([i \in 1..Len(entries) |->
                                 <<0 - entries[i].percentage, entries[i]>>])
         IN  [dominant |-> MapArgMax(counts, 1, "neutral", 0),
              confidence |-> Ratio(sumExpressionConfidence(observations, 1), total),
              distribution |-> [i \in 1..Len(ps) |-> ps[i][2]]]

Abs(x) == IF x < 0 THEN 0 - x ELSE x

\* variant of engagementOf below that looks at the yaw only
engagementOfYawOnly(obs) ==
    (IF obs.headPose # NoPose
     THEN (IF Abs(obs.headPose.yaw) > 30 THEN 0 - 2 ELSE 2)
     ELSE 1)
    + (IF obs.expression # "neutral" /\ obs.expression # "bored" THEN 1 ELSE 0)
    + (IF obs.isSpeaking THEN 2 ELSE 0)

\* the contribution of one observation to engagementScore, in halves
engagementOf(obs) ==
    (IF obs.headPose # NoPose
     THEN (IF Abs(obs.headPose.yaw) > 30 \/ Abs(obs.headPose.pitch) > 20
           THEN 0 - 2 ELSE 2)
     ELSE 1)
    + (IF obs.expression # "neutral" /\ obs.expression # "bored" THEN 1 ELSE 0)
    + (IF obs.isSpeaking THEN 2 ELSE 0)

RECURSIVE engagementScore(_, _)
engagementScore(observations, i) ==
    IF i > Len(observations) THEN 0
    ELSE engagementOf(observations[i]) + engagementScore(observations, i + 1)

\* variant of assessEngagement below whose answer for no observations is 'low'
assessEngagementLowDefault(observations) ==
    IF Len(observations) = 0 THEN "low"
    ELSE LET score == engagementScore(observations, 1)
             n == Len(observations)
         IN  IF score > 2 * n THEN "high"
             ELSE IF 10 * score > 6 * n THEN "medium"
             ELSE "low"

\* avgScore = engagementScore / length; in halves: avg > 1.0 iff score > 2 * length,
\* avg > 0.3 iff 10 * score > 6 * length
assessEngagement(observations) ==
    IF Len(observations) = 0 THEN "medium"
    ELSE LET score == engagementScore(observations, 1)
             n == Len(observations)
         IN  IF score > 2 * n THEN "high"
             ELSE IF 10 * score > 6 * n THEN "medium"
             ELSE "low"

\* ------------------------------------------------------------------------
\* diarize: one transcript segment (the body of the for loop)
\* ------------------------------------------------------------------------
diarizeSegment(seg, sortedVisual, speakerNameMap, speakerLabelMap) ==
    LET overlapping == overlappingObs(sortedVisual, seg)
        speakingObs == speakingObsOf(overlapping)
        visualMatch == Len(speakingObs) > 0
        speakerCounts == addScores(<<>>, speakingObs, 1)
        rawName == IF seg.speakerLabel # NoLabel THEN seg.speakerLabel ELSE "Unknown"
        visualId == MapArgMax(speakerCounts, 1, "unknown", 0)
        useLabel == /\ ~visualMatch
                    /\ seg.speakerLabel # NoLabel
                    /\ MapHas(speakerLabelMap, seg.speakerLabel)
        mapped == MapGet(speakerLabelMap, seg.speakerLabel)
        expressionAnalysis == analyzeExpressionsDuringSegment(overlapping)
    IN  [text |-> seg.text,
         startTime |-> seg.startTime,
         endTime |-> seg.endTime,
         speakerId |-> IF visualMatch THEN visualId
                       ELSE IF useLabel THEN mapped.participantId
                       ELSE "unknown",
         speakerName |-> IF visualMatch
                         THEN (IF MapHas(speakerNameMap, visualId)
                               THEN MapGet(speakerNameMap, visualId) ELSE rawName)
                         ELSE IF useLabel THEN mapped.name
                         ELSE rawName,
         confidence |-> IF visualMatch THEN 9
                        \* seg.confidence || 0.5: undefined and 0 are falsy
                        ELSE IF seg.confidence # NoConfidence /\ seg.confidence # 0
                        THEN seg.confidence
                        ELSE 5,
         dominantExpression |-> expressionAnalysis.dominant,
         expressionConfidence |-> expressionAnalysis.confidence,
         expressions |-> expressionAnalysis.distribution,
         isSpeaking |-> TRUE,
         engagement |-> assessEngagement(overlapping),
         audioSource |-> "whisper",
         visualMatch |-> visualMatch]

\* ------------------------------------------------------------------------
\* diarize: participant summaries
\* ------------------------------------------------------------------------
\* text.split(/\s+/).filter(Boolean).length: the maximal runs of non-blank characters
wordCount(text) ==
    Cardinality({i \in 1..Len(text) :
                    text[i] # " " /\ (i = 1 \/ text[i - 1] = " ")})

\* variant of collectParticipants below that opens an entry for every segment
RECURSIVE collectParticipantsUnmerged(_, _, _)
collectParticipantsUnmerged(participantMap, segments, i) ==
    IF i > Len(segments) THEN participantMap
    ELSE LET seg == segments[i]
             new == [id |-> seg.speakerId,
                     name |-> seg.speakerName,
                     totalSpeakingTime |-> seg.endTime - seg.startTime,
                     speakingPercentage |-> 0,
                     segmentCount |-> 1,
                     dominantExpression |-> "neutral",
                     expressionTimeline |->
                         <<[time |-> seg.startTime,
                            expression |-> seg.dominantExpression]>>,
                     engagementLevel |-> "medium",
                     wordCount |-> wordCount(seg.text)]
         IN  collectParticipantsUnmerged(
                 Append(participantMap, <<seg.speakerId, new>>), segments, i + 1)

RECURSIVE collectParticipants(_, _, _)
collectParticipants(participantMap, segments, i) ==
    IF i > Len(segments) THEN participantMap
    ELSE LET seg == segments[i]
             old == MapGetOr(participantMap, seg.speakerId,
                        [id |-> seg.speakerId,
                         name |-> seg.speakerName,
                         totalSpeakingTime |-> 0,
                         speakingPercentage |-> 0,
                         segmentCount |-> 0,
                         dominantExpression |-> "neutral",
                         expressionTimeline |-> <<>>,
                         engagementLevel |-> "medium",
                         wordCount |-> 0])
             new == [old EXCEPT
                        !.totalSpeakingTime = @ + (seg.endTime - seg.startTime),
                        !.segmentCount = @ + 1,
                        !.wordCount = @ + wordCount(seg.text),
                        !.expressionTimeline =
                            Append(@, [time |-> seg.startTime,
                                       expression |-> seg.dominantExpression])]
         IN  collectParticipants(MapSet(participantMap, seg.speakerId, new),
                                 segments, i + 1)

RECURSIVE sumSpeakingTime(_, _)
sumSpeakingTime(participantMap, i) ==
    IF i > Len(participantMap) THEN 0
    ELSE participantMap[i][2].totalSpeakingTime + sumSpeakingTime(participantMap, i + 1)

IsEngagedObs(v) == v.expression # "bored" /\ v.expression # "neutral"

summarizeParticipant(participant, totalSpeaking, visual) ==
    LET exprCounts == countExpressions(<<>>, participant.expressionTimeline, 1)
        IsOwn(v) == v.participantId = participant.id
        participantVisual == SelectSeq(visual, IsOwn)
        engaged == Len(SelectSeq(participantVisual, IsEngagedObs))
        n == Len(participantVisual)
    IN  [participant EXCEPT
            !.speakingPercentage =
                IF totalSpeaking > 0
                THEN roundPercent(participant.totalSpeakingTime, totalSpeaking)
                ELSE 0,
            !.dominantExpression = MapArgMax(exprCounts, 1, "neutral", 0),
            !.engagementLevel =
                IF n > 0
                THEN (IF 2 * engaged > n THEN "high"
                      ELSE IF 5 * engaged > n THEN "medium" ELSE "low")
                ELSE @]

buildParticipantSummaries(segments, visual) ==
    LET participantMap == collectParticipants(<<>>, segments, 1)
        totalSpeaking == sumSpeakingTime(participantMap, 1)
    IN  [i \in 1..Len(participantMap) |->
            summarizeParticipant(participantMap[i][2], totalSpeaking, visual)]

\* ------------------------------------------------------------------------
\* diarize
\* ------------------------------------------------------------------------
\* variant of qualityOf below whose upper threshold is one half
qualityOfMajority(segments) ==
    LET IsMatch(s) == s.visualMatch
        matched == Len(SelectSeq(segments, IsMatch))
        n == IF Len(segments) > 1 THEN Len(segments) ELSE 1
    IN  IF 2 * matched > n THEN "high"
        ELSE IF 10 * matched > 3 * n THEN "medium"
        ELSE "low"

\* matchRate > 0.7 ? 'high' : matchRate > 0.3 ? 'medium' : 'low',
\* matchRate = matched / Math.max(length, 1)
qualityOf(segments) ==
    LET IsMatch(s) == s.visualMatch
        matched == Len(SelectSeq(segments, IsMatch))
        n == IF Len(segments) > 1 THEN Len(segments) ELSE 1
    IN  IF 10 * matched > 7 * n THEN "high"
        ELSE IF 10 * matched > 3 * n THEN "medium"
        ELSE "low"

diarize(buffer, transcriptSegments, visualObservations, participantNames) ==
    LET allVisual == buffer \o visualObservations
        sortedTranscript == sortTranscript(transcriptSegments)
        sortedVisual == sortVisual(allVisual)
        speakerNameMap == buildSpeakerNameMap(sortedVisual, participantNames)
        speakerLabelMap == mapSpeakerLabelsToParticipants(sortedTranscript, sortedVisual)
        segments == [i \in 1..Len(sortedTranscript) |->
                        diarizeSegment(sortedTranscript[i], sortedVisual,
                                       speakerNameMap, speakerLabelMap)]
    IN  [segments |-> segments,
         participants |-> buildParticipantSummaries(segments, sortedVisual),
         duration |-> IF Len(sortedTranscript) > 0
                      THEN sortedTranscript[Len(sortedTranscript)].endTime
                               - sortedTranscript[1].startTime
                      ELSE 0,
         quality |-> qualityOf(segments)]

\* ------------------------------------------------------------------------
\* Pipeline orchestrator: state
\* ------------------------------------------------------------------------
VARIABLES
    state,              \* this.state: PipelineState
    config,             \* this.config
    audioFilePath,      \* this.audioFilePath
    durationTimer,      \* this.durationTimer: the interval handle, or NoTimer
    timers,             \* the intervals setInterval has made and nothing has cleared
    captureCleanup,     \* this.captureCleanup is set
    apiKey,             \* recallBot.apiKey is non-empty
    calls,              \* the start() and stop() calls made so far, by call number
    listeners,          \* this.listeners: event type -> its handlers, in insertion order
    faceDetection,      \* this.faceDetection: the implementation in use
    frames,             \* the processFrame calls made so far, by frame number
    observations,       \* diarization.observations: the visual-observation buffer
    transcriptSegments, \* argument of a direct diarize call
    visualObservations, \* argument of a direct diarize call
    participantNames,   \* argument of a direct diarize call
    result,             \* what the direct diarize call returned, or NoResult
    previous,           \* what the direct diarize call before it returned, or NoResult
    transcription       \* the Transcription Adapter: its ready flag and its calls

pipelineVars == <<state, config, audioFilePath, durationTimer, timers,
                  captureCleanup, apiKey, calls, listeners, faceDetection, frames>>

\* what start() and stop() never assign
hostVars == <<listeners, faceDetection, frames>>

diarizeVars == <<transcriptSegments, visualObservations, participantNames, result,
                 previous>>

transcriptionVars == <<transcription>>

vars == <<state, config, audioFilePath, durationTimer, timers, captureCleanup,
          apiKey, calls, listeners, faceDetection, frames, observations, transcriptSegments, visualObservations,
          participantNames, result, previous, transcription>>

MaxCalls == 3
MaxInFlight == 2
MaxEntries == 2

Calls == 1..MaxCalls

NoConfig ==
    [meetingTitle |-> "", captureSourceId |-> FALSE, recallApiKey |-> FALSE,
     participantNames |-> <<>>]
NoAudio == "null"
NoTimer == 0
NoBot == 0
NoReview == 0
NoError == ""
NoResult == [segments |-> <<>>, participants |-> <<>>, duration |-> 0, quality |-> "none"]

\* wait ceiling and poll interval of waitForBotProcessing, in milliseconds
maxWaitMs == 120000
pollIntervalMs == 3000

Titles == {"m1"}

\* PipelineConfig: captureSourceId and recallApiKey are given or not
Configs ==
    [meetingTitle : Titles, captureSourceId : BOOLEAN, recallApiKey : BOOLEAN,
     participantNames : {<<"Kim">>}]

AlreadyActive == "A pipeline is already active. Stop it first."
NoKeyMessage == "Failed to deploy bot: Recall.ai API key not configured"
ApiErrorMessage == "Failed to deploy bot: Recall.ai API error"
CleanupMessage == "capture cleanup failed"
FaceMessage == "face detection failed"

\* PipelineEventType
EventTypes ==
    {"status_changed", "participant_detected", "transcript_segment",
     "expression_update", "review_ready", "error"}

\* event handlers: the one named bad throws, the others return
Handlers == {"bad", "last"}

Throws(handler) == handler = "bad"

MaxFrames == 2

Frames == 1..MaxFrames

\* a processFrame call: its place, what it emitted, how often it called analyzeFrame,
\* whether its catch took an exception
NoFrame ==
    [pc |-> "none", events |-> <<>>, handled |-> <<>>, escaped |-> FALSE,
     analyzed |-> 0, caught |-> FALSE]

IdleState ==
    [status |-> "idle", meetingTitle |-> "", botId |-> NoBot, error |-> NoError,
     reviewId |-> NoReview, captureActive |-> FALSE, participantCount |-> 0,
     \* not a field of PipelineState: the participantNames of the config the
     \* session of this state was started with
     startedWith |-> <<>>]

NoCall ==
    [op |-> "none", pc |-> "idle", cfg |-> NoConfig, outcome |-> "pending",
     message |-> NoError, review |-> NoReview, events |-> <<>>, keyOk |-> FALSE,
     threw |-> FALSE, elapsed |-> 0, transcript |-> "none",
     cleared |-> <<>>, handled |-> <<>>, escaped |-> FALSE, botFailed |-> FALSE,
     status |-> "none", queries |-> 0, entries |-> 0, storeFailed |-> FALSE,
     left |-> NoBot, knownNames |-> <<>>]

PipelineInit ==
    /\ state = IdleState
    /\ config = NoConfig
    /\ audioFilePath = NoAudio
    /\ durationTimer = NoTimer
    /\ timers = {}
    /\ captureCleanup = FALSE
    /\ apiKey = FALSE
    /\ calls = [t \in Calls |-> NoCall]
    /\ listeners = [type \in EventTypes |-> <<>>]
    /\ faceDetection = "noop"
    /\ frames = [f \in Frames |-> NoFrame]
    /\ observations = <<>>
    /\ transcription = [ready |-> FALSE, runs |-> <<>>]

Init ==
    /\ PipelineInit
    /\ transcriptSegments = <<>>
    /\ visualObservations = <<>>
    /\ participantNames = <<>>
    /\ result = NoResult
    /\ previous = NoResult

\* ------------------------------------------------------------------------
\* Pipeline orchestrator: helpers
\* ------------------------------------------------------------------------
\* variant of isActive below that does not count bot_joining as active
isActiveAfterJoining ==
    /\ state.status # "idle" /\ state.status # "complete" /\ state.status # "error"
    /\ state.status # "bot_joining"

\* variant of isActive below for which only idle is inactive
isActiveUnlessIdle ==
    state.status # "idle"

isActive ==
    state.status # "idle" /\ state.status # "complete" /\ state.status # "error"

\* variant of the loop below without try/catch: the first throw ends the loop and
\* leaves emit
RECURSIVE callHandlersNoCatch(_, _)
callHandlersNoCatch(handlers, i) ==
    IF i > Len(handlers) THEN [called |-> <<>>, escaped |-> FALSE]
    ELSE IF Throws(handlers[i]) THEN [called |-> <<handlers[i]>>, escaped |-> TRUE]
    ELSE LET rest == callHandlersNoCatch(handlers, i + 1)
         IN  [called |-> <<handlers[i]>> \o rest.called, escaped |-> rest.escaped]

\* lines 542-549: for (const handler of handlers) try { handler(event) } catch {..}:
\* the handlers called, in order, and whether a throw leaves emit
RECURSIVE callHandlers(_, _)
callHandlers(handlers, i) ==
    IF i > Len(handlers) THEN [called |-> <<>>, escaped |-> FALSE]
    ELSE LET rest == callHandlers(handlers, i + 1)
         IN  [called |-> <<handlers[i]>> \o rest.called, escaped |-> rest.escaped]

\* emit(type, data), as the operation that emits sees it: the event joins the log of
\* the operation, and so do the handler calls it leads to.  The data of a
\* status_changed event is the object this.state itself at every call site (lines
\* 126, 138, 145, 158, 189, 214, 262, 271, 280), of which `data` is the status at
\* the time of the call; the data of the other events is a new object.
emit(call, type, data) ==
    LET run == callHandlers(listeners[type], 1)
    IN  [call EXCEPT
            !.events = Append(@, [type |-> type, data |-> data]),
            !.handled = @ \o [i \in 1..Len(run.called) |->
                                 [handler |-> run.called[i], type |-> type,
                                  data |-> data,
                                  isState |-> type = "status_changed"]],
            !.escaped = @ \/ run.escaped]

\* lines 286-288: a copy of this.state
getState == state

InFlight(t) == calls[t].op # "none" /\ calls[t].pc # "done"

\* call t is the next one to be made, and may be made now
NextCall(t) ==
    /\ calls[t].op = "none"
    /\ \A u \in Calls : u < t => calls[u].op # "none"
    /\ Cardinality({u \in Calls : InFlight(u)}) < MaxInFlight

\* return / throw of call t with its last updates
Return(t, call, outcome) ==
    calls' = [calls EXCEPT ![t] =
                 [call EXCEPT !.pc = "done", !.outcome = outcome,
                              \* the locals of the call end with it
                              !.keyOk = FALSE, !.threw = FALSE,
                              !.elapsed = 0, !.transcript = "none",
                              !.status = "none", !.queries = 0]]

Suspend(t, call, pc) ==
    calls' = [calls EXCEPT ![t] = [call EXCEPT !.pc = pc]]

\* a call that returned before the latest call was made: its log is no longer kept
PastCall == [NoCall EXCEPT !.op = "past", !.pc = "done"]

\* the calls as a new call finds them
Earlier == [u \in Calls |-> IF calls[u].pc = "done" THEN PastCall ELSE calls[u]]

\* call t is made: Return or Suspend of a first step
Begin(t, call, pc, outcome) ==
    calls' = [Earlier EXCEPT ![t] = [call EXCEPT !.pc = pc, !.outcome = outcome]]

\* ------------------------------------------------------------------------
\* start(config)
\* ------------------------------------------------------------------------
\* lines 109-132: up to the await of deployBot; createBot's apiCall has already
\* decided whether the key is missing
CallStart(t, cfg) ==
    /\ NextCall(t)
    /\ IF isActive
       THEN /\ Begin(t, [calls[t] EXCEPT !.op = "start", !.cfg = cfg,
                                         !.message = AlreadyActive],
                      "done", "throws")
            /\ UNCHANGED <<state, config, audioFilePath, durationTimer, timers,
                           captureCleanup, apiKey, observations>>
       ELSE /\ config' = cfg
            /\ state' = [status |-> "bot_joining", meetingTitle |-> cfg.meetingTitle,
                         botId |-> NoBot, error |-> NoError, reviewId |-> NoReview,
                         captureActive |-> FALSE, participantCount |-> 0,
                         startedWith |-> cfg.participantNames]
            /\ observations' = <<>>
            /\ apiKey' = (apiKey \/ cfg.recallApiKey)
            /\ Begin(t, emit([calls[t] EXCEPT !.op = "start", !.cfg = cfg,
                                              !.keyOk = apiKey'],
                             "status_changed", "bot_joining"),
                     "awaitDeploy", "pending")
            /\ UNCHANGED <<audioFilePath, durationTimer, timers, captureCleanup>>
    /\ UNCHANGED diarizeVars
    /\ UNCHANGED transcriptionVars
    /\ UNCHANGED hostVars

\* lines 141-147: the catch of start
StartFail(t, message) ==
    /\ state' = [state EXCEPT !.status = "error", !.error = message]
    /\ Return(t, emit(emit([calls[t] EXCEPT !.message = message], "error", message),
                      "status_changed", "error"),
              "throws")
    /\ UNCHANGED <<config, audioFilePath, durationTimer, timers, captureCleanup,
                   apiKey, observations>>

\* lines 524-530
startDurationTimer(t) ==
    /\ durationTimer' = t
    /\ timers' = timers \cup {t}

\* lines 139-140
StartCapturing(t, st, call) ==
    /\ state' = [st EXCEPT !.status = "capturing"]
    /\ Return(t, emit(call, "status_changed", "capturing"), "resolved")

\* deployBot returns or throws (lines 431-441), then lines 133-140
DeployBotDone(t, outcome) ==
    /\ calls[t].op = "start" /\ calls[t].pc = "awaitDeploy"
    /\ outcome \in (IF calls[t].keyOk THEN {"bot", "noid", "api_error"} ELSE {"no_key"})
    /\ IF outcome \in {"no_key", "api_error"}
       THEN StartFail(t, IF outcome = "no_key" THEN NoKeyMessage ELSE ApiErrorMessage)
       ELSE LET st == [state EXCEPT !.botId = IF outcome = "bot" THEN t ELSE NoBot]
            IN  /\ startDurationTimer(t)
                /\ IF calls[t].cfg.captureSourceId
                   THEN state' = st /\ Suspend(t, calls[t], "awaitCapture")
                   ELSE StartCapturing(t, st, calls[t])
                /\ UNCHANGED <<config, audioFilePath, captureCleanup, apiKey,
                               observations>>
    /\ UNCHANGED diarizeVars
    /\ UNCHANGED transcriptionVars
    /\ UNCHANGED hostVars

\* startCapture returns (lines 294-317), then lines 139-140
StartCaptureDone(t, outcome) ==
    /\ calls[t].op = "start" /\ calls[t].pc = "awaitCapture"
    /\ outcome \in {"unavailable", "started", "failed"}
    /\ IF outcome = "started"
       THEN /\ captureCleanup' = TRUE
            /\ StartCapturing(t, [state EXCEPT !.captureActive = TRUE],
                              emit(calls[t], "status_changed", state.status))
       ELSE /\ UNCHANGED captureCleanup
            /\ StartCapturing(t, state, calls[t])
    /\ UNCHANGED <<config, audioFilePath, durationTimer, timers, apiKey, observations>>
    /\ UNCHANGED diarizeVars
    /\ UNCHANGED transcriptionVars
    /\ UNCHANGED hostVars

\* ------------------------------------------------------------------------
\* stop()
\* ------------------------------------------------------------------------
\* lines 553-556
resetState ==
    /\ config' = NoConfig
    /\ audioFilePath' = NoAudio

\* variant of the catch of stop below that emits no error event
StopFailSilent(t, message) ==
    /\ state' = [state EXCEPT !.status = "error", !.error = message]
    /\ resetState
    /\ Return(t, emit([calls[t] EXCEPT !.message = message], "status_changed", "error"),
              "null")

\* lines 276-282: the catch of stop
StopFail(t, message) ==
    /\ state' = [state EXCEPT !.status = "error", !.error = message]
    /\ resetState
    /\ Return(t, emit(emit([calls[t] EXCEPT !.message = message], "error", message),
                      "status_changed", "error"),
              "null")

\* lines 213-221: to analyzing, up to the await of diarize
ToAnalyzing(t, st, call) ==
    /\ state' = [st EXCEPT !.status = "analyzing"]
    \* line 220: this.config?.participantNames, undefined (the default []) for no
    \* config
    /\ Suspend(t, [emit(call, "status_changed", "analyzing")
                      EXCEPT !.knownNames = config.participantNames],
               "awaitDiarize")

\* variant of ToTranscribing below that goes straight to analyzing without audio
ToTranscribingSkip(t, st, call) ==
    IF audioFilePath # NoAudio
    THEN /\ state' = [st EXCEPT !.status = "transcribing"]
         /\ Suspend(t, emit(call, "status_changed", "transcribing"), "awaitWhisper")
    ELSE ToAnalyzing(t, st, call)

\* lines 188-193: to transcribing, up to the await of transcribeFile if there is audio
ToTranscribing(t, st, call) ==
    LET st1 == [st EXCEPT !.status = "transcribing"]
        c1 == emit(call, "status_changed", "transcribing")
    IN  IF audioFilePath # NoAudio
        THEN state' = st1 /\ Suspend(t, c1, "awaitWhisper")
        ELSE ToAnalyzing(t, st1, c1)

\* lines 150-154 and 319-324: up to the await inside stopCapture
CallStop(t, cleanupThrows) ==
    /\ NextCall(t)
    /\ IF ~isActive
       THEN /\ Begin(t, [calls[t] EXCEPT !.op = "stop", !.cfg = config], "done", "null")
            /\ UNCHANGED captureCleanup
       ELSE IF captureCleanup /\ cleanupThrows
       THEN /\ Begin(t, [calls[t] EXCEPT !.op = "stop", !.cfg = config, !.threw = TRUE],
                     "awaitStopCapture", "pending")
            /\ UNCHANGED captureCleanup
       ELSE /\ captureCleanup' = FALSE
            /\ Begin(t, [calls[t] EXCEPT !.op = "stop", !.cfg = config],
                     "awaitStopCapture", "pending")
    /\ UNCHANGED <<state, config, audioFilePath, durationTimer, timers, apiKey,
                   observations>>
    /\ UNCHANGED diarizeVars
    /\ UNCHANGED transcriptionVars
    /\ UNCHANGED hostVars

\* stopCapture returns or throws (lines 325-334), then lines 155-164
StopCaptureDone(t) ==
    /\ calls[t].op = "stop" /\ calls[t].pc = "awaitStopCapture"
    /\ IF calls[t].threw
       THEN /\ StopFail(t, CleanupMessage)
            /\ UNCHANGED <<durationTimer, timers>>
       ELSE LET st == [state EXCEPT !.captureActive = FALSE, !.status = "bot_processing"]
                call == emit([calls[t] EXCEPT !.cleared =
                                 IF durationTimer # NoTimer
                                 THEN Append(@, durationTimer) ELSE @],
                             "status_changed", "bot_processing")
            IN  \* stopDurationTimer, lines 532-537
                /\ timers' = IF durationTimer # NoTimer
                             THEN timers \ {durationTimer} ELSE timers
                /\ durationTimer' = NoTimer
                /\ IF state.botId # NoBot
                   \* line 164: stopBot(this.state.botId) is called
                   THEN state' = st
                        /\ Suspend(t, [call EXCEPT !.left = state.botId], "awaitStopBot")
                   ELSE ToTranscribing(t, st, call)
                /\ UNCHANGED <<config, audioFilePath>>
    /\ UNCHANGED <<captureCleanup, apiKey, observations>>
    /\ UNCHANGED diarizeVars
    /\ UNCHANGED transcriptionVars
    /\ UNCHANGED hostVars

\* the catch of lines 182-184 was taken
BotFailed(call) == [call EXCEPT !.botFailed = TRUE]

\* variant of StopBotDone below in which a throwing stopBot reaches the catch of
\* stop
StopBotDoneAborting(t, ok) ==
    /\ calls[t].op = "stop" /\ calls[t].pc = "awaitStopBot"
    /\ IF ok
       THEN /\ Suspend(t, [calls[t] EXCEPT !.elapsed = 0], "awaitStatus")
            /\ UNCHANGED <<state, config, audioFilePath>>
       ELSE StopFail(t, "stopBot failed")
    /\ UNCHANGED <<durationTimer, timers, captureCleanup, apiKey, observations>>
    /\ UNCHANGED diarizeVars
    /\ UNCHANGED transcriptionVars
    /\ UNCHANGED hostVars

\* stopBot returns or throws (line 164); on return waitForBotProcessing starts and
\* makes its first status query (lines 445-449)
StopBotDone(t, ok) ==
    /\ calls[t].op = "stop" /\ calls[t].pc = "awaitStopBot"
    /\ IF ok
       THEN /\ Suspend(t, [calls[t] EXCEPT !.elapsed = 0], "awaitStatus")
            /\ UNCHANGED state
       ELSE ToTranscribing(t, state, BotFailed(calls[t]))
    /\ UNCHANGED <<config, audioFilePath, durationTimer, timers, captureCleanup,
                   apiKey, observations>>
    /\ UNCHANGED diarizeVars
    /\ UNCHANGED transcriptionVars
    /\ UNCHANGED hostVars

BotStatuses ==
    {"ready", "joining", "in_waiting_room", "in_call", "recording", "processing",
     "done", "error", "fatal"}

\* the status codes that end the polling loop (line 450)
IsPollTerminal(status) == status = "done" \/ status = "error"

Min(a, b) == IF a < b THEN a ELSE b

\* the status queries a loop can make before the ceiling has passed, and one more
MaxQueries == maxWaitMs \div pollIntervalMs + 1

\* a status query has answered: the call's count of queries (counted up to
\* MaxQueries) and the latest answer
Queried(call, status) ==
    [call EXCEPT !.status = status, !.queries = Min(@ + 1, MaxQueries)]

\* variant of PollStatusDone below in which a throwing status query leaves the loop
\* for the catch of the bot block
PollStatusDoneRethrowing(t, status) ==
    /\ calls[t].op = "stop" /\ calls[t].pc = "awaitStatus"
    /\ status \in BotStatuses \cup {"throws"}
    /\ IF status = "throws"
       THEN ToTranscribing(t, state, BotFailed(Queried(calls[t], status)))
       ELSE /\ IF IsPollTerminal(status)
               THEN Suspend(t, Queried(calls[t], status), "awaitRecording")
               ELSE Suspend(t, Queried(calls[t], status), "sleep")
            /\ UNCHANGED state
    /\ UNCHANGED <<config, audioFilePath, durationTimer, timers,
                   captureCleanup, apiKey, observations>>
    /\ UNCHANGED diarizeVars
    /\ UNCHANGED transcriptionVars
    /\ UNCHANGED hostVars

\* getBotStatus returns or throws (lines 448-456): the loop returns, which leads to
\* the getRecording call of line 167, or sleeps
PollStatusDone(t, status) ==
    /\ calls[t].op = "stop" /\ calls[t].pc = "awaitStatus"
    /\ status \in BotStatuses \cup {"throws"}
    /\ IF status # "throws" /\ IsPollTerminal(status)
       THEN Suspend(t, Queried(calls[t], status), "awaitRecording")
       ELSE Suspend(t, Queried(calls[t], status), "sleep")
    /\ UNCHANGED <<state, config, audioFilePath, durationTimer, timers,
                   captureCleanup, apiKey, observations>>
    /\ UNCHANGED diarizeVars
    /\ UNCHANGED transcriptionVars
    /\ UNCHANGED hostVars

\* variant of PollWake below whose loop never sees the ceiling pass
PollWakeNoCeiling(t, latency) ==
    /\ calls[t].op = "stop" /\ calls[t].pc = "sleep"
    /\ Suspend(t, [calls[t] EXCEPT !.status = "none"], "awaitStatus")
    /\ UNCHANGED <<state, config, audioFilePath, durationTimer, timers,
                   captureCleanup, apiKey, observations>>
    /\ UNCHANGED diarizeVars
    /\ UNCHANGED transcriptionVars
    /\ UNCHANGED hostVars

\* the 3 s timeout fires (line 456) and the loop condition of line 447 is evaluated:
\* Date.now() - startTime has grown by the time the status query took to answer
\* (latency) and by the interval; past the ceiling its exact value no longer matters
PollWake(t, latency) ==
    /\ calls[t].op = "stop" /\ calls[t].pc = "sleep"
    /\ LET elapsed == Min(calls[t].elapsed + latency + pollIntervalMs, maxWaitMs)
       IN  IF elapsed < maxWaitMs
           THEN Suspend(t, [calls[t] EXCEPT !.elapsed = elapsed, !.status = "none"],
                        "awaitStatus")
           ELSE Suspend(t, [calls[t] EXCEPT !.elapsed = elapsed], "awaitRecording")
    /\ UNCHANGED <<state, config, audioFilePath, durationTimer, timers,
                   captureCleanup, apiKey, observations>>
    /\ UNCHANGED diarizeVars
    /\ UNCHANGED transcriptionVars
    /\ UNCHANGED hostVars

\* getRecording returns or throws (lines 167-172)
RecordingDone(t, outcome) ==
    /\ calls[t].op = "stop" /\ calls[t].pc = "awaitRecording"
    /\ outcome \in {"throws", "none", "audio"}
    /\ IF outcome = "throws"
       THEN /\ ToTranscribing(t, state, BotFailed([calls[t] EXCEPT !.status = "none"]))
            /\ UNCHANGED audioFilePath
       ELSE /\ audioFilePath' = IF outcome = "audio" THEN "audioUrl" ELSE audioFilePath
            /\ Suspend(t, [calls[t] EXCEPT !.status = "none"], "awaitTranscript")
            /\ UNCHANGED state
    /\ UNCHANGED <<config, durationTimer, timers, captureCleanup, apiKey, observations>>
    /\ UNCHANGED diarizeVars
    /\ UNCHANGED transcriptionVars
    /\ UNCHANGED hostVars

\* getTranscript returns or throws (lines 172-189)
TranscriptDone(t, outcome) ==
    /\ calls[t].op = "stop" /\ calls[t].pc = "awaitTranscript"
    /\ outcome \in {"throws", "none", "empty", "segments"}
    /\ ToTranscribing(t, state,
                      IF outcome = "throws" THEN BotFailed(calls[t])
                      ELSE [calls[t] EXCEPT !.transcript =
                               IF outcome = "segments" THEN "bot" ELSE @])
    /\ UNCHANGED <<config, audioFilePath, durationTimer, timers, captureCleanup,
                   apiKey, observations>>
    /\ UNCHANGED diarizeVars
    /\ UNCHANGED transcriptionVars
    /\ UNCHANGED hostVars

\* transcribeFile returns or throws (lines 193-214)
WhisperDone(t, outcome) ==
    /\ calls[t].op = "stop" /\ calls[t].pc = "awaitWhisper"
    /\ outcome \in {"throws", "empty", "segments"}
    /\ ToAnalyzing(t, state,
                   [calls[t] EXCEPT !.transcript =
                       IF outcome = "segments" THEN "whisper" ELSE @])
    /\ UNCHANGED <<config, audioFilePath, durationTimer, timers, captureCleanup,
                   apiKey, observations>>
    /\ UNCHANGED diarizeVars
    /\ UNCHANGED transcriptionVars
    /\ UNCHANGED hostVars

\* diarize returns (line 217), then lines 223-264: faceDetection.getParticipants may
\* throw, which the catch of stop takes
DiarizeDone(t, faceThrows) ==
    /\ calls[t].op = "stop" /\ calls[t].pc = "awaitDiarize"
    /\ faceThrows => faceDetection # "noop"
    /\ IF faceThrows
       THEN StopFail(t, FaceMessage)
       ELSE /\ state' = [state EXCEPT !.status = "generating_review"]
            /\ Suspend(t, emit(calls[t], "status_changed", "generating_review"),
                       "awaitReview")
            /\ UNCHANGED <<config, audioFilePath>>
    /\ UNCHANGED <<durationTimer, timers, captureCleanup, apiKey, observations>>
    /\ UNCHANGED diarizeVars
    /\ UNCHANGED transcriptionVars
    /\ UNCHANGED hostVars

\* generateReview returns (line 264): it catches its own failures; the review's id
\* is fresh, here the number of the call; storeMeetingInMoltbook (lines 355-401)
\* builds `entries` knowledge entries from the review and runs up to its first fetch,
\* or to its end when there is no entry
ReviewDone(t, entries) ==
    /\ calls[t].op = "stop" /\ calls[t].pc = "awaitReview"
    /\ entries \in 0..MaxEntries
    /\ Suspend(t, [calls[t] EXCEPT !.review = t, !.entries = entries],
               IF entries = 0 THEN "awaitStore" ELSE "awaitUpload")
    /\ UNCHANGED <<state, config, audioFilePath, durationTimer, timers,
                   captureCleanup, apiKey, observations>>
    /\ UNCHANGED diarizeVars
    /\ UNCHANGED transcriptionVars
    /\ UNCHANGED hostVars

\* variant of UploadDone below in which a failed upload reaches the catch of stop
UploadDoneAborting(t, ok) ==
    /\ calls[t].op = "stop" /\ calls[t].pc = "awaitUpload"
    /\ IF ok
       THEN /\ Suspend(t, [calls[t] EXCEPT !.entries = @ - 1],
                       IF calls[t].entries > 1 THEN "awaitUpload" ELSE "awaitStore")
            /\ UNCHANGED <<state, config, audioFilePath>>
       ELSE StopFail(t, "upload failed")
    /\ UNCHANGED <<durationTimer, timers, captureCleanup, apiKey, observations>>
    /\ UNCHANGED diarizeVars
    /\ UNCHANGED transcriptionVars
    /\ UNCHANGED hostVars

\* the fetch of one knowledge entry returns or throws (lines 402-415): the next
\* entry is uploaded, or storeMeetingInMoltbook returns, after its catch when the
\* fetch threw
UploadDone(t, ok) ==
    /\ calls[t].op = "stop" /\ calls[t].pc = "awaitUpload"
    /\ IF ok
       THEN Suspend(t, [calls[t] EXCEPT !.entries = @ - 1],
                    IF calls[t].entries > 1 THEN "awaitUpload" ELSE "awaitStore")
       ELSE Suspend(t, [calls[t] EXCEPT !.entries = 0, !.storeFailed = TRUE],
                    "awaitStore")
    /\ UNCHANGED <<state, config, audioFilePath, durationTimer, timers,
                   captureCleanup, apiKey, observations>>
    /\ UNCHANGED diarizeVars
    /\ UNCHANGED transcriptionVars
    /\ UNCHANGED hostVars

\* storeMeetingInMoltbook has returned (line 267); then lines 269-275
StoreDone(t) ==
    /\ calls[t].op = "stop" /\ calls[t].pc = "awaitStore"
    /\ state' = [state EXCEPT !.status = "complete", !.reviewId = calls[t].review]
    /\ resetState
    /\ Return(t, emit(emit(calls[t], "status_changed", "complete"),
                      "review_ready", calls[t].review),
              "review")
    /\ UNCHANGED <<durationTimer, timers, captureCleanup, apiKey, observations>>
    /\ UNCHANGED diarizeVars
    /\ UNCHANGED transcriptionVars
    /\ UNCHANGED hostVars

\* ------------------------------------------------------------------------
\* Face detection and frames
\* ------------------------------------------------------------------------
\* an injected FaceDetectionService: one whose isReady() is false, one whose
\* isReady() is true
Implementations == {"unready", "ready"}

\* lines 101-103
setFaceDetection(impl) ==
    /\ faceDetection' = impl
    /\ UNCHANGED <<state, config, audioFilePath, durationTimer, timers,
                   captureCleanup, apiKey, calls, listeners, frames, observations>>
    /\ UNCHANGED diarizeVars
    /\ UNCHANGED transcriptionVars

\* the observation processFrame builds from a matched participant (lines 488-496)
frameObservation ==
    [timestamp |-> 0, participantId |-> "A", participantName |-> NoName,
     isSpeaking |-> TRUE, speakingConfidence |-> 9, expression |-> "neutral",
     expressionConfidence |-> 8, headPose |-> NoPose]

\* what the face detection does for one frame: analyzeFrame throws or returns a
\* result with or without faces and with at most one matched participant;
\* getParticipants throws or returns a list of `participants` entries;
\* getParticipant throws, returns nothing or returns the participant; what is never
\* looked at is left out
FrameResults ==
    {r \in [analyzeFrame : {"throws", "returns"}, faces : BOOLEAN, matched : BOOLEAN,
            getParticipants : {"throws", "returns"}, participants : 0..1,
            getParticipant : {"throws", "nothing", "participant"}] :
        /\ r.analyzeFrame = "throws" => r.getParticipants = "returns"
        /\ (r.analyzeFrame = "throws" \/ r.getParticipants = "throws")
               => (~r.faces /\ ~r.matched /\ r.participants = 0)
        /\ ~r.matched => r.getParticipant = "nothing"}

\* frame f is the next one the capture hands over
NextFrame(f) ==
    /\ frames[f].pc = "none"
    /\ \A g \in Frames : g < f => frames[g].pc # "none"

\* variant of processFrame below that does not ask isReady()
processFrameAlways(f, readyThrows) ==
    /\ NextFrame(f)
    /\ captureCleanup
    /\ readyThrows => faceDetection # "noop"
    /\ frames' = [frames EXCEPT ![f] = [@ EXCEPT !.pc = "awaitAnalyze", !.analyzed = 1]]
    /\ UNCHANGED <<state, config, audioFilePath, durationTimer, timers,
                   captureCleanup, apiKey, calls, listeners, faceDetection,
                   observations>>
    /\ UNCHANGED diarizeVars
    /\ UNCHANGED transcriptionVars

\* processFrame up to the await of analyzeFrame (lines 466-476), called by the capture
\* callback (lines 306-308); isReady() of an injected implementation may throw
processFrame(f, readyThrows) ==
    /\ NextFrame(f)
    /\ captureCleanup
    /\ readyThrows => faceDetection # "noop"
    /\ frames' = [frames EXCEPT ![f] =
                     IF readyThrows THEN [@ EXCEPT !.pc = "rejected"]
                     ELSE IF faceDetection # "ready" THEN [@ EXCEPT !.pc = "done"]
                     ELSE [@ EXCEPT !.pc = "awaitAnalyze", !.analyzed = 1]]
    /\ UNCHANGED <<state, config, audioFilePath, durationTimer, timers,
                   captureCleanup, apiKey, calls, listeners, faceDetection,
                   observations>>
    /\ UNCHANGED diarizeVars
    /\ UNCHANGED transcriptionVars

\* variant of AnalyzeFrameDone below whose catch reports the failure as the catch of
\* stop does
AnalyzeFrameDoneReporting(f, r) ==
    /\ frames[f].pc = "awaitAnalyze"
    /\ LET gotResult == r.analyzeFrame = "returns" /\ r.getParticipants = "returns"
           observed == gotResult /\ r.matched /\ r.getParticipant = "participant"
           finished == gotResult /\ ~(r.matched /\ r.getParticipant = "throws")
           f1 == IF observed
                 THEN emit(frames[f], "expression_update", frameObservation.participantId)
                 ELSE frames[f]
           f2 == IF finished /\ r.faces
                 THEN emit(f1, "participant_detected", 1)
                 ELSE f1
           f3 == IF finished THEN f2 ELSE emit(f2, "error", FaceMessage)
       IN  /\ observations' = IF observed THEN Append(observations, frameObservation)
                               ELSE observations
           /\ frames' = [frames EXCEPT ![f] =
                            [f3 EXCEPT !.pc = "done", !.caught = ~finished]]
           /\ state' = IF gotResult
                        THEN [state EXCEPT !.participantCount = r.participants]
                        ELSE IF finished THEN state
                        ELSE [state EXCEPT !.status = "error", !.error = FaceMessage]
    /\ UNCHANGED <<config, audioFilePath, durationTimer, timers,
                   captureCleanup, apiKey, calls, listeners, faceDetection>>
    /\ UNCHANGED diarizeVars
    /\ UNCHANGED transcriptionVars

\* analyzeFrame returns or throws, then lines 478-517
AnalyzeFrameDone(f, r) ==
    /\ frames[f].pc = "awaitAnalyze"
    /\ LET gotResult == r.analyzeFrame = "returns" /\ r.getParticipants = "returns"
           observed == gotResult /\ r.matched /\ r.getParticipant = "participant"
           finished == gotResult /\ ~(r.matched /\ r.getParticipant = "throws")
           f1 == IF observed
                 THEN emit(frames[f], "expression_update", frameObservation.participantId)
                 ELSE frames[f]
           f2 == IF finished /\ r.faces
                 THEN emit(f1, "participant_detected", 1)
                 ELSE f1
       IN  /\ observations' = IF observed THEN Append(observations, frameObservation)
                               ELSE observations
           /\ frames' = [frames EXCEPT ![f] =
                            [f2 EXCEPT !.pc = "done", !.caught = ~finished]]
           /\ state' = IF gotResult
                        THEN [state EXCEPT !.participantCount = r.participants]
                        ELSE state
    /\ UNCHANGED <<config, audioFilePath, durationTimer, timers,
                   captureCleanup, apiKey, calls, listeners, faceDetection>>
    /\ UNCHANGED diarizeVars
    /\ UNCHANGED transcriptionVars

\* ------------------------------------------------------------------------
\* Specifications
\* ------------------------------------------------------------------------
\* a call awaited by start() or stop(), other than an upload, settles
Settle ==
    \/ \E t \in Calls, outcome \in {"bot", "noid", "api_error", "no_key"} :
           DeployBotDone(t, outcome)
    \/ \E t \in Calls, outcome \in {"unavailable", "started", "failed"} :
           StartCaptureDone(t, outcome)
    \/ \E t \in Calls : StopCaptureDone(t)
    \/ \E t \in Calls, ok \in BOOLEAN : StopBotDone(t, ok)
    \/ \E t \in Calls, status \in BotStatuses \cup {"throws"} : PollStatusDone(t, status)
    \/ \E t \in Calls, outcome \in {"throws", "none", "audio"} : RecordingDone(t, outcome)
    \/ \E t \in Calls, outcome \in {"throws", "none", "empty", "segments"} :
           TranscriptDone(t, outcome)
    \/ \E t \in Calls, outcome \in {"throws", "empty", "segments"} : WhisperDone(t, outcome)
    \/ \E t \in Calls, faceThrows \in BOOLEAN : DiarizeDone(t, faceThrows)
    \/ \E t \in Calls, entries \in 0..MaxEntries : ReviewDone(t, entries)
    \/ \E t \in Calls : StoreDone(t)

\* the knowledge store answers an upload
Upload == \E t \in Calls, ok \in BOOLEAN : UploadDone(t, ok)

Step == Settle \/ Upload

\* every interleaving of calls: a call may be made while others are in flight; a
\* status query answers so late that the wait ceiling has passed at the next wake
Next ==
    \/ \E t \in Calls, cfg \in Configs : CallStart(t, cfg)
    \/ \E t \in Calls, cleanupThrows \in BOOLEAN : CallStop(t, cleanupThrows)
    \/ \E t \in Calls : PollWake(t, maxWaitMs)
    \/ \E impl \in Implementations : setFaceDetection(impl)
    \/ Step

Spec == Init /\ [][Next]_vars

NoneInFlight == \A t \in Calls : ~InFlight(t)

\* each call is awaited before the next is made; a status query answers at once
SeqNext ==
    \/ \E t \in Calls, cfg \in Configs : NoneInFlight /\ CallStart(t, cfg)
    \/ \E t \in Calls, cleanupThrows \in BOOLEAN : NoneInFlight /\ CallStop(t, cleanupThrows)
    \/ \E t \in Calls : PollWake(t, 0)
    \/ \E impl \in Implementations : setFaceDetection(impl)
    \/ Step

SeqSpec == Init /\ [][SeqNext]_vars

\* the event loop runs every continuation whose awaited call has settled, and every
\* awaited call settles
SeqFairSpec ==
    /\ SeqSpec
    /\ WF_vars(Step)
    /\ WF_vars(\E t \in Calls : PollWake(t, 0))

\* as SeqFairSpec, but the knowledge store need not answer an upload
SilentStoreSpec ==
    /\ SeqSpec
    /\ WF_vars(Settle)
    /\ WF_vars(\E t \in Calls : PollWake(t, 0))

\* ------------------------------------------------------------------------
\* Event handlers
\* ------------------------------------------------------------------------
MaxHandlers == 2
MaxFrameCalls == 2

\* the event types handlers are registered for: one that start() and stop() emit,
\* one that processFrame emits
HandledTypes == {"status_changed", "expression_update"}

RECURSIVE CountHandlers(_)
CountHandlers(types) ==
    IF types = {} THEN 0
    ELSE LET type == CHOOSE type \in types : TRUE
         IN  Len(listeners[type]) + CountHandlers(types \ {type})

IsListening(type, handler) ==
    \E i \in 1..Len(listeners[type]) : listeners[type][i] = handler

\* on(type, handler), lines 336-341: a Set keeps a handler once
on(type, handler) ==
    /\ CountHandlers(EventTypes) < MaxHandlers
    /\ listeners' = [listeners EXCEPT ![type] =
                         IF IsListening(type, handler) THEN @ ELSE Append(@, handler)]
    /\ UNCHANGED <<state, config, audioFilePath, durationTimer, timers,
                   captureCleanup, apiKey, calls, faceDetection, frames, observations>>
    /\ UNCHANGED diarizeVars
    /\ UNCHANGED transcriptionVars

\* off(type, handler), lines 343-345
off(type, handler) ==
    /\ IsListening(type, handler)
    /\ listeners' = [listeners EXCEPT ![type] =
                         LET IsOther(h) == h # handler IN SelectSeq(@, IsOther)]
    /\ UNCHANGED <<state, config, audioFilePath, durationTimer, timers,
                   captureCleanup, apiKey, calls, faceDetection, frames, observations>>
    /\ UNCHANGED diarizeVars
    /\ UNCHANGED transcriptionVars

\* one session with frames: a face detection is injected at any time, handlers come
\* and go before the first frame, the calls are awaited one after the other
FrameNext ==
    \/ \E impl \in Implementations : setFaceDetection(impl)
    \/ \E f \in Frames, readyThrows \in BOOLEAN : processFrame(f, readyThrows)
    \/ \E f \in Frames, r \in FrameResults : AnalyzeFrameDone(f, r)
    \/ \E type \in HandledTypes, handler \in Handlers :
           /\ NoneInFlight /\ \A f \in Frames : frames[f].pc = "none"
           /\ on(type, handler)
    \/ \E type \in HandledTypes, handler \in Handlers :
           /\ NoneInFlight /\ \A f \in Frames : frames[f].pc = "none"
           /\ off(type, handler)
    \/ \E t \in 1..MaxFrameCalls, cfg \in Configs : NoneInFlight /\ CallStart(t, cfg)
    \/ \E t \in 1..MaxFrameCalls, cleanupThrows \in BOOLEAN :
           NoneInFlight /\ CallStop(t, cleanupThrows)
    \/ \E t \in Calls : PollWake(t, maxWaitMs)
    \/ Step

FrameSpec == Init /\ [][FrameNext]_vars

\* ------------------------------------------------------------------------
\* Direct use of the diarization engine
\* ------------------------------------------------------------------------
\* all sequences over S of length at most n
SeqsUpTo(S, n) == UNION {[1..k -> S] : k \in 0..n}

Times == {0, 1, 2}

Labels == {"L"}

Pids == {"A", "B"}

\* the text and the transcription confidence of the i-th segment handed in: the
\* texts differ from one position to the next, the second segment has no confidence,
\* the third has confidence 0
textAt(i) ==
    CASE i = 1 -> <<"a">>
      [] i = 2 -> <<"b", " ", "c">>
      [] i = 3 -> <<" ", "d", " ", " ", "e", "f">>
      [] OTHER -> <<"g", " ">>

confidenceAt(i) ==
    CASE i = 2 -> NoConfidence
      [] i = 3 -> 0
      [] OTHER -> 7

\* RawTranscriptSegment without text and confidence, startTime <= endTime
SegmentShapes ==
    {s \in [startTime : Times, endTime : Times, speakerLabel : Labels \cup {NoLabel}] :
        s.startTime <= s.endTime}

segmentAt(shape, i) ==
    [text |-> textAt(i), startTime |-> shape.startTime, endTime |-> shape.endTime,
     speakerLabel |-> shape.speakerLabel, confidence |-> confidenceAt(i)]

Transcripts(n) ==
    {[i \in 1..Len(shapes) |-> segmentAt(shapes[i], i)] :
        shapes \in SeqsUpTo(SegmentShapes, n)}

\* isSpeaking and speakingConfidence of an observation
SpeakingKinds ==
    {[isSpeaking |-> FALSE, speakingConfidence |-> 9],
     [isSpeaking |-> TRUE, speakingConfidence |-> 3],
     [isSpeaking |-> TRUE, speakingConfidence |-> 5],
     [isSpeaking |-> TRUE, speakingConfidence |-> 9]}

\* VisualObservation
ObservationsOf(kinds) ==
    {[timestamp |-> ts, participantId |-> pid, participantName |-> NoName,
      isSpeaking |-> k.isSpeaking, speakingConfidence |-> k.speakingConfidence,
      expression |-> "neutral", expressionConfidence |-> 8, headPose |-> NoPose] :
        ts \in Times, pid \in Pids, k \in kinds}

Observations == ObservationsOf(SpeakingKinds)

\* the observations whose speaking signal counts
CountedObservations == {o \in Observations : IsSpeakingObs(o)}

\* short transcripts, every kind of observation, buffered or passed in
DiarizeInit ==
    /\ PipelineInit
    /\ transcriptSegments \in Transcripts(MaxSegs)
    /\ visualObservations \in SeqsUpTo(Observations, MaxObs)
    /\ participantNames = <<>>
    /\ result = NoResult
    /\ previous = NoResult

\* longer transcripts, observations whose speaking signal counts, passed in
LongInit ==
    /\ PipelineInit
    /\ transcriptSegments \in Transcripts(MaxLongSegs)
    /\ visualObservations \in SeqsUpTo(CountedObservations, MaxObs)
    /\ participantNames = <<>>
    /\ result = NoResult
    /\ previous = NoResult

\* addVisualObservation, lines 25-27
addVisualObservation(observation) ==
    /\ result = NoResult
    /\ Len(observations) < MaxBuffered
    /\ Len(observations) + Len(visualObservations) < MaxObs
    /\ observations' = Append(observations, observation)
    /\ UNCHANGED pipelineVars
    /\ UNCHANGED transcriptionVars
    /\ UNCHANGED diarizeVars
    /\ UNCHANGED transcriptionVars

\* diarize(transcriptSegments, visualObservations, participantNames), lines 37-118
Diarize ==
    /\ result = NoResult
    /\ result' = diarize(observations, transcriptSegments, visualObservations,
                         participantNames)
    /\ UNCHANGED pipelineVars
    /\ UNCHANGED transcriptionVars
    /\ UNCHANGED <<observations, transcriptSegments, visualObservations,
                   participantNames, previous>>

\* for the second call below: a diarize that keeps the observations passed in in
\* the buffer
DiarizeKeeping ==
    /\ result # NoResult /\ previous = NoResult
    /\ previous' = result
    /\ result' = diarize(observations, transcriptSegments, visualObservations,
                         participantNames)
    /\ observations' = observations \o visualObservations
    /\ UNCHANGED pipelineVars
    /\ UNCHANGED transcriptionVars
    /\ UNCHANGED <<transcriptSegments, visualObservations, participantNames>>

\* a second diarize call with the same arguments, lines 37-118
DiarizeAgain ==
    /\ result # NoResult /\ previous = NoResult
    /\ previous' = result
    /\ result' = diarize(observations, transcriptSegments, visualObservations,
                         participantNames)
    /\ UNCHANGED pipelineVars
    /\ UNCHANGED transcriptionVars
    /\ UNCHANGED <<observations, transcriptSegments, visualObservations,
                   participantNames>>

DiarizeNext ==
    \/ \E observation \in Observations : addVisualObservation(observation)
    \/ Diarize

DiarizeSpec == DiarizeInit /\ [][DiarizeNext]_vars

LongSpec == LongInit /\ [][Diarize]_vars

\* short transcripts, observations whose speaking signal counts, at most one
\* buffered and one passed in; diarize is called twice
RepeatInit ==
    /\ PipelineInit
    /\ transcriptSegments \in Transcripts(MaxSegs)
    /\ visualObservations \in SeqsUpTo(CountedObservations, MaxBuffered)
    /\ participantNames = <<>>
    /\ result = NoResult
    /\ previous = NoResult

RepeatNext ==
    \/ \E observation \in CountedObservations : addVisualObservation(observation)
    \/ Diarize
    \/ DiarizeAgain

RepeatSpec == RepeatInit /\ [][RepeatNext]_vars

\* longer transcripts, at most one observation whose speaking signal counts, passed
\* in; diarize is called twice
SummaryInit ==
    /\ PipelineInit
    /\ transcriptSegments \in Transcripts(MaxLongSegs)
    /\ visualObservations \in SeqsUpTo(CountedObservations, MaxBuffered)
    /\ participantNames = <<>>
    /\ result = NoResult
    /\ previous = NoResult

SummaryNext ==
    \/ Diarize
    \/ DiarizeAgain

SummarySpec == SummaryInit /\ [][SummaryNext]_vars

\* ------------------------------------------------------------------------
\* buildSpeakerNameMap, applied directly
\* ------------------------------------------------------------------------
MaxNamedObs == 3

NamePids == {"A", "B", "C"}

\* VisualObservation with or without a participantName
NamedObservations ==
    {[timestamp |-> ts, participantId |-> pid, participantName |-> name,
      isSpeaking |-> FALSE, speakingConfidence |-> 9,
      expression |-> "neutral", expressionConfidence |-> 8, headPose |-> NoPose] :
        ts \in {0, 1}, pid \in NamePids, name \in {NoName, "Ann", "Bea"}}

NameInit ==
    /\ PipelineInit
    /\ transcriptSegments = <<>>
    /\ visualObservations \in SeqsUpTo(NamedObservations, MaxNamedObs)
    /\ participantNames \in SeqsUpTo({"Kim", "Lee"}, 2)
    /\ result = NoResult
    /\ previous = NoResult

\* lines 42-47 of diarize: the map built from the sorted observations
SpeakerNameMap ==
    /\ result = NoResult
    /\ result' = [speakerNameMap |->
                     buildSpeakerNameMap(sortVisual(observations \o visualObservations),
                                         participantNames)]
    /\ UNCHANGED pipelineVars
    /\ UNCHANGED transcriptionVars
    /\ UNCHANGED <<observations, transcriptSegments, visualObservations,
                   participantNames, previous>>

NameSpec == NameInit /\ [][SpeakerNameMap]_vars

\* as NameInit, with a known name that observations carry too
SharedNameInit ==
    /\ PipelineInit
    /\ transcriptSegments = <<>>
    /\ visualObservations \in SeqsUpTo(NamedObservations, MaxNamedObs)
    /\ participantNames \in SeqsUpTo({"Ann", "Lee"}, 2)
    /\ result = NoResult
    /\ previous = NoResult

SharedNameSpec == SharedNameInit /\ [][SpeakerNameMap]_vars

\* ------------------------------------------------------------------------
\* diarize of one segment, observations with expressions
\* ------------------------------------------------------------------------
MaxExprObs == 4

\* VisualObservation with one of three expressions and one of two confidences
ExpressionObservations ==
    {[timestamp |-> ts, participantId |-> "A", participantName |-> NoName,
      isSpeaking |-> FALSE, speakingConfidence |-> 9,
      expression |-> e, expressionConfidence |-> c, headPose |-> NoPose] :
        ts \in {0, 1}, e \in {"neutral", "happy", "sad"}, c \in {2, 9}}

\* one transcript segment that covers both timestamps or one of them
OneSegment ==
    {<<segmentAt([startTime |-> a, endTime |-> b, speakerLabel |-> NoLabel], 1)>> :
        a \in {0, 1}, b \in {1}}

ExpressionInit ==
    /\ PipelineInit
    /\ transcriptSegments \in OneSegment
    /\ visualObservations \in SeqsUpTo(ExpressionObservations, MaxExprObs)
    /\ participantNames = <<>>
    /\ result = NoResult
    /\ previous = NoResult

ExpressionSpec == ExpressionInit /\ [][Diarize]_vars

\* ------------------------------------------------------------------------
\* diarize of one segment, observations with head poses
\* ------------------------------------------------------------------------
MaxPoseObs == 3

\* headPose: none, at the limits, past the yaw limit, past the pitch limit
HeadPoses ==
    {NoPose,
     [present |-> TRUE, yaw |-> 30, pitch |-> 0 - 20],
     [present |-> TRUE, yaw |-> 0 - 31, pitch |-> 0],
     [present |-> TRUE, yaw |-> 0, pitch |-> 21]}

PoseObservations ==
    {[timestamp |-> ts, participantId |-> "A", participantName |-> NoName,
      isSpeaking |-> sp, speakingConfidence |-> 9,
      expression |-> e, expressionConfidence |-> 8, headPose |-> pose] :
        ts \in {0, 1}, sp \in BOOLEAN, e \in {"neutral", "bored", "happy"},
        pose \in HeadPoses}

\* one transcript segment at the second timestamp
EngagementInit ==
    /\ PipelineInit
    /\ transcriptSegments =
           <<segmentAt([startTime |-> 1, endTime |-> 1, speakerLabel |-> NoLabel], 1)>>
    /\ visualObservations \in SeqsUpTo(PoseObservations, MaxPoseObs)
    /\ participantNames = <<>>
    /\ result = NoResult
    /\ previous = NoResult

EngagementSpec == EngagementInit /\ [][Diarize]_vars

\* ------------------------------------------------------------------------
\* the diarize call of stop, over the observations processFrame has buffered
\* ------------------------------------------------------------------------
MaxStopObs == 2

\* the observations processFrame builds: no head pose
FrameObservations ==
    {[timestamp |-> ts, participantId |-> pid, participantName |-> NoName,
      isSpeaking |-> k.isSpeaking, speakingConfidence |-> k.speakingConfidence,
      expression |-> e, expressionConfidence |-> 8, headPose |-> NoPose] :
        ts \in {0, 1}, pid \in Pids, e \in {"neutral", "happy"},
        k \in {[isSpeaking |-> FALSE, speakingConfidence |-> 9],
               [isSpeaking |-> TRUE, speakingConfidence |-> 5],
               [isSpeaking |-> TRUE, speakingConfidence |-> 9]}}

StopShapes == {s \in SegmentShapes : s.endTime <= 1}

StopTranscripts ==
    {[i \in 1..Len(shapes) |-> segmentAt(shapes[i], i)] :
        shapes \in SeqsUpTo(StopShapes, MaxSegs)}

StopDiarizeInit ==
    /\ PipelineInit
    /\ transcriptSegments \in StopTranscripts
    /\ visualObservations = <<>>
    /\ participantNames \in {<<>>, <<"Kim">>}
    /\ result = NoResult
    /\ previous = NoResult

\* variant of getVisualObservations below that returns the latest observation only
getVisualObservationsLatest ==
    IF Len(observations) = 0 THEN <<>> ELSE <<observations[Len(observations)]>>

\* getVisualObservations, diarization.ts lines 29-31: a copy of the buffer
getVisualObservations == observations

\* lines 216-221 of stop: diarize is handed what getVisualObservations returns
StopDiarize ==
    /\ result = NoResult
    /\ visualObservations' = getVisualObservations
    /\ result' = diarize(observations, transcriptSegments, getVisualObservations,
                         participantNames)
    /\ UNCHANGED pipelineVars
    /\ UNCHANGED transcriptionVars
    /\ UNCHANGED <<observations, transcriptSegments, participantNames, previous>>

\* lines 481-493 of processFrame: the observation of a matched participant is
\* buffered
BufferObservation(observation) ==
    /\ result = NoResult
    /\ Len(observations) < MaxStopObs
    /\ observations' = Append(observations, observation)
    /\ UNCHANGED pipelineVars
    /\ UNCHANGED transcriptionVars
    /\ UNCHANGED diarizeVars

StopDiarizeNext ==
    \/ \E observation \in FrameObservations : BufferObservation(observation)
    \/ StopDiarize

StopDiarizeSpec == StopDiarizeInit /\ [][StopDiarizeNext]_vars

\* ------------------------------------------------------------------------
\* Transcription Adapter (TranscriptionServiceImpl)
\* ------------------------------------------------------------------------
MaxRuns == 2
MaxResultSegs == 2

\* a call of transcribeFile: where it is, the engines it has called in order, whether
\* `ready` was set when it was made, whether the local engine threw, whether the
\* remote engine failed, how it ended and how many segments it returned
NewRun ==
    [pc |-> "none", engines |-> <<>>, wasReady |-> FALSE, localThrew |-> FALSE,
     cloudFailed |-> FALSE, outcome |-> "pending", segments |-> 0]

Runs == 1..MaxRuns

transcriptionOthers ==
    <<state, config, audioFilePath, durationTimer, timers, captureCleanup, apiKey,
      calls, listeners, faceDetection, frames, observations>>

\* init, lines 19-33: isLocalModelAvailable catches its own failures
init(available) ==
    /\ transcription' = [transcription EXCEPT !.ready = @ \/ available]
    /\ UNCHANGED transcriptionOthers
    /\ UNCHANGED diarizeVars

\* transcribeFile up to its first await, lines 61-70
transcribeFile ==
    /\ Len(transcription.runs) < MaxRuns
    /\ transcription' =
           [transcription EXCEPT !.runs =
               Append(@, [NewRun EXCEPT
                             !.wasReady = transcription.ready,
                             !.pc = IF transcription.ready THEN "local" ELSE "cloud",
                             !.engines = IF transcription.ready THEN <<"local">>
                                         ELSE <<"cloud">>])]
    /\ UNCHANGED transcriptionOthers
    /\ UNCHANGED diarizeVars

\* transcribeWithLocalWhisper returns its segments or throws (lines 63-69, 92-124):
\* on a throw the catch logs and transcribeWithCloudAI is called
transcribeWithLocalWhisper(i, throws, segments) ==
    /\ i \in 1..Len(transcription.runs)
    /\ transcription.runs[i].pc = "local"
    /\ throws => segments = 0
    /\ transcription' =
           [transcription EXCEPT !.runs[i] =
               IF throws
               THEN [@ EXCEPT !.pc = "cloud", !.localThrew = TRUE,
                              !.engines = Append(@, "cloud")]
               ELSE [@ EXCEPT !.pc = "done", !.outcome = "result",
                              !.segments = segments]]
    /\ UNCHANGED transcriptionOthers
    /\ UNCHANGED diarizeVars

\* what the remote engine does: no API key, the request throws, or it answers with
\* segments (none when the answer has no segments field)
CloudOutcomes == {"no_key", "throws", "answers"}

\* variant of transcribeWithCloudAI below without its catch
transcribeWithCloudAIThrowing(i, outcome, segments) ==
    /\ i \in 1..Len(transcription.runs)
    /\ transcription.runs[i].pc = "cloud"
    /\ outcome \in CloudOutcomes
    /\ outcome # "answers" => segments = 0
    /\ transcription' =
           [transcription EXCEPT !.runs[i] =
               IF outcome = "answers"
               THEN [@ EXCEPT !.pc = "done", !.outcome = "result",
                              !.segments = segments]
               ELSE [@ EXCEPT !.pc = "done", !.outcome = "throws",
                              !.cloudFailed = TRUE]]
    /\ UNCHANGED transcriptionOthers
    /\ UNCHANGED diarizeVars

\* transcribeWithCloudAI ends (lines 126-166): its catch returns the empty result
transcribeWithCloudAI(i, outcome, segments) ==
    /\ i \in 1..Len(transcription.runs)
    /\ transcription.runs[i].pc = "cloud"
    /\ outcome \in CloudOutcomes
    /\ outcome # "answers" => segments = 0
    /\ transcription' =
           [transcription EXCEPT !.runs[i] =
               IF outcome = "answers"
               THEN [@ EXCEPT !.pc = "done", !.outcome = "result",
                              !.segments = segments]
               ELSE [@ EXCEPT !.pc = "done", !.outcome = "result",
                              !.segments = 0, !.cloudFailed = TRUE]]
    /\ UNCHANGED transcriptionOthers
    /\ UNCHANGED diarizeVars

TranscribeNext ==
    \/ \E available \in BOOLEAN : init(available)
    \/ transcribeFile
    \/ \E i \in Runs, throws \in BOOLEAN, segments \in 0..MaxResultSegs :
           transcribeWithLocalWhisper(i, throws, segments)
    \/ \E i \in Runs, outcome \in CloudOutcomes, segments \in 0..MaxResultSegs :
           transcribeWithCloudAI(i, outcome, segments)

TranscribeSpec == Init /\ [][TranscribeNext]_vars

\* ------------------------------------------------------------------------
\* Properties of the orchestrator
\* ------------------------------------------------------------------------
StatusChain ==
    <<"idle", "bot_joining", "capturing", "bot_processing", "transcribing",
      "analyzing", "generating_review", "complete">>

Terminal == {"idle", "complete", "error"}

AllowedChange(from, to) ==
    \/ \E i \in 1..(Len(StatusChain) - 1) : from = StatusChain[i] /\ to = StatusChain[i + 1]
    \/ to = "error" /\ from # "idle"
    \/ from \in Terminal /\ to = "bot_joining"

\* the events call t emits in a step
Emitted(t) ==
    IF calls[t].op = "none" THEN calls'[t].events
    ELSE SubSeq(calls'[t].events, Len(calls[t].events) + 1, Len(calls'[t].events))

\* the statuses state.status takes in a step of call t, the one before the step
\* first: every assignment to state.status is followed by a status_changed event
StatusPath(t) ==
    LET IsStatusChanged(e) == e.type = "status_changed"
        changes == SelectSeq(Emitted(t), IsStatusChanged)
    IN  <<state.status>> \o [i \in 1..Len(changes) |-> changes[i].data]

C2_StartWhileActive ==
    [][\A t \in Calls :
          (calls[t].op = "none" /\ calls'[t].op = "start"
              /\ state.status \notin Terminal)
          => /\ calls'[t].pc = "done"
             /\ calls'[t].outcome = "throws"
             /\ calls'[t].message = AlreadyActive
             /\ calls'[t].events = <<>>
             /\ UNCHANGED <<state, config, observations, durationTimer, timers,
                            audioFilePath, captureCleanup, apiKey>>
             /\ \A u \in Calls : InFlight(u) => calls'[u] = calls[u]]_vars

\* a start() was refused while an earlier start() awaits the bot deployment
C2_Witness ==
    \E t, u \in Calls :
        /\ calls[t].op = "start" /\ calls[t].outcome = "throws"
        /\ calls[t].message = AlreadyActive
        /\ calls[u].op = "start" /\ calls[u].pc = "awaitDeploy"

\* the stop() of the first session, a session started without capture source
C3_Stop ==
    /\ calls[2].op = "stop"
    /\ calls[2].pc # "done" \/ calls[2].events # <<>>
    /\ ~calls[2].cfg.captureSourceId

\* C3: after a start() without capture source on a new orchestrator, the stop() that
\* follows returns, whatever the bot reports and also when it never reports done, with
\* status complete or error, and it has stopped the ticker of the start() exactly
\* once: no ticker runs afterwards.
C3_StopTerminates ==
    /\ C3_Stop ~> (/\ calls[2].pc = "done"
                   /\ state.status \in {"complete", "error"}
                   /\ calls[2].cleared = <<1>>
                   /\ durationTimer = NoTimer
                   /\ timers = {})
    /\ [](C3_Stop => Len(calls[2].cleared) <= 1)

\* the bot never reported done or error and the wait ceiling has passed
C3_Witness ==
    /\ C3_Stop
    /\ calls[2].pc = "awaitRecording"
    /\ calls[2].elapsed = maxWaitMs

CountEvents(events, type) ==
    Cardinality({i \in 1..Len(events) : events[i].type = type})

\* C4: when a stop() made on an active session returns, it returns a review exactly
\* when the status is complete, and then state.reviewId is the id of that review and
\* the call has emitted exactly one review_ready event, which carries the review; it
\* returns null exactly when the status is error, and then state.error holds the
\* message and the call has emitted exactly one error event.  It returns one or the
\* other: it does not throw.
C4_StopOutcome ==
    [][\A t \in Calls :
          (calls[t].op = "stop" /\ calls[t].pc # "done" /\ calls'[t].pc = "done")
          => /\ calls'[t].outcome \in {"review", "null"}
             /\ calls'[t].outcome = "review" <=> state'.status = "complete"
             /\ calls'[t].outcome = "null" <=> state'.status = "error"
             /\ calls'[t].outcome = "review"
                   => /\ calls'[t].review # NoReview
                      /\ state'.reviewId = calls'[t].review
                      /\ CountEvents(calls'[t].events, "review_ready") = 1
                      /\ \E i \in 1..Len(calls'[t].events) :
                             calls'[t].events[i] =
                                 [type |-> "review_ready", data |-> calls'[t].review]
             /\ calls'[t].outcome = "null"
                   => /\ state'.error # NoError
                      /\ state'.error = calls'[t].message
                      /\ CountEvents(calls'[t].events, "error") = 1]_vars

\* a stop() has returned its review while another call is in flight
C4_Witness ==
    \E t, u \in Calls :
        /\ calls[t].op = "stop" /\ calls[t].outcome = "review"
        /\ state.status = "complete" /\ state.reviewId = calls[t].review
        /\ InFlight(u)

\* C5: when a start() has thrown for another reason than an active session, the
\* status is error, state.error holds the message of the failure, the call has
\* emitted an error event with that message, and no ticker is running.
C5_StartFailure ==
    \A t \in Calls :
        (calls[t].op = "start" /\ calls[t].pc = "done" /\ calls[t].outcome = "throws"
            /\ calls[t].message # AlreadyActive)
        => /\ state.status = "error"
           /\ state.error = calls[t].message
           /\ \E i \in 1..Len(calls[t].events) :
                  calls[t].events[i] = [type |-> "error", data |-> calls[t].message]
           /\ durationTimer = NoTimer
           /\ timers = {}

\* C6: when no call is in flight and the status is complete or error, the stored
\* config and the audio path are cleared.
C6_ResetAfterTerminal ==
    (NoneInFlight /\ state.status \in {"complete", "error"})
    => (config = NoConfig /\ audioFilePath = NoAudio)

\* ------------------------------------------------------------------------
\* Properties of the diarization engine
\* ------------------------------------------------------------------------
\* the place of input segment i in ascending startTime order, equal startTimes in
\* input order
RankOf(segs, i) ==
    Cardinality({j \in 1..Len(segs) :
                    \/ segs[j].startTime < segs[i].startTime
                    \/ segs[j].startTime = segs[i].startTime /\ j <= i})

\* the diarized segment of input segment i
Diarized(i) == result.segments[RankOf(transcriptSegments, i)]

\* C7: diarize returns one diarized segment per transcript segment, with the text,
\* startTime and endTime of that segment, in ascending startTime order, segments of
\* equal startTime in their input order.
C7_OnePerSegment ==
    result # NoResult
    => /\ Len(result.segments) = Len(transcriptSegments)
       /\ \A i \in 1..Len(transcriptSegments) :
              /\ Diarized(i).text = transcriptSegments[i].text
              /\ Diarized(i).startTime = transcriptSegments[i].startTime
              /\ Diarized(i).endTime = transcriptSegments[i].endTime
       /\ \A k \in 1..(Len(result.segments) - 1) :
              result.segments[k].startTime <= result.segments[k + 1].startTime

\* three segments were diarized: the first and the third start together, the second
\* starts before them
C7_Witness ==
    /\ result # NoResult
    /\ Len(transcriptSegments) = 3
    /\ transcriptSegments[1].startTime = transcriptSegments[3].startTime
    /\ transcriptSegments[2].startTime < transcriptSegments[1].startTime

\* all observations of the call: the buffered ones, then the ones passed in
AllVisual == observations \o visualObservations

\* observation i comes before observation j in time order
Before(i, j) ==
    \/ AllVisual[i].timestamp < AllVisual[j].timestamp
    \/ AllVisual[i].timestamp = AllVisual[j].timestamp /\ i < j

\* the observations in the window of segment seg that are flagged speaking with
\* confidence above 0.3
SpeakingIn(seg) ==
    {i \in 1..Len(AllVisual) :
        /\ AllVisual[i].timestamp >= seg.startTime
        /\ AllVisual[i].timestamp <= seg.endTime
        /\ AllVisual[i].isSpeaking
        /\ AllVisual[i].speakingConfidence > 3}

OfParticipant(S, p) == {i \in S : AllVisual[i].participantId = p}

RECURSIVE SumConfidence(_)
SumConfidence(S) ==
    IF S = {} THEN 0
    ELSE LET i == CHOOSE i \in S : TRUE
         IN  AllVisual[i].speakingConfidence + SumConfidence(S \ {i})

\* p has the highest summed confidence among the observations S, and where another
\* participant has the same sum, an observation of p comes before all of theirs
Wins(S, p) ==
    /\ OfParticipant(S, p) # {}
    /\ \A q \in Pids \ {p} :
           LET sp == SumConfidence(OfParticipant(S, p))
               sq == SumConfidence(OfParticipant(S, q))
           IN  \/ sq < sp
               \/ /\ sq = sp
                  /\ \E i \in OfParticipant(S, p) :
                         \A j \in OfParticipant(S, q) : Before(i, j)

SpeakingInLabel(label) ==
    UNION {SpeakingIn(transcriptSegments[j]) :
              j \in {k \in 1..Len(transcriptSegments) :
                        transcriptSegments[k].speakerLabel = label}}

\* C9: a segment without visual match whose label is in the label map (a speaking
\* observation falls inside some segment bearing the label) has visualMatch false and
\* the speakerId of a participant whose sum of speakingConfidence, over the speaking
\* observations that fall inside any segment bearing the label, is the highest.
C9_LabelFallback ==
    result # NoResult
    => \A i \in 1..Len(transcriptSegments) :
           LET seg == transcriptSegments[i]
               S == SpeakingInLabel(seg.speakerLabel)
           IN  (SpeakingIn(seg) = {} /\ seg.speakerLabel # NoLabel /\ S # {})
               => /\ ~Diarized(i).visualMatch
                  /\ OfParticipant(S, Diarized(i).speakerId) # {}
                  /\ \A q \in Pids :
                         SumConfidence(OfParticipant(S, q))
                             <= SumConfidence(OfParticipant(S, Diarized(i).speakerId))

\* C10: with no observation buffered and none passed in, every diarized segment has
\* dominantExpression neutral, expressionConfidence 0.5, engagement medium and
\* visualMatch false, and the quality is low; with no transcript segment the segment
\* list returned is empty.
C10_NoObservations ==
    /\ (result # NoResult /\ observations = <<>> /\ visualObservations = <<>>)
       => /\ Len(result.segments) = Len(transcriptSegments)
          /\ \A k \in 1..Len(result.segments) :
                 /\ result.segments[k].dominantExpression = "neutral"
                 /\ result.segments[k].expressionConfidence = [num |-> 5, den |-> 1]
                 /\ result.segments[k].engagement = "medium"
                 /\ ~result.segments[k].visualMatch
          /\ result.quality = "low"
    /\ (result # NoResult /\ transcriptSegments = <<>>) => result.segments = <<>>

\* two segments were diarized without any observation
C10_Witness ==
    /\ result # NoResult
    /\ observations = <<>> /\ visualObservations = <<>>
    /\ Len(transcriptSegments) = 2

RECURSIVE SumPercentages(_, _)
SumPercentages(participants, i) ==
    IF i > Len(participants) THEN 0
    ELSE participants[i].speakingPercentage + SumPercentages(participants, i + 1)

\* C11: when diarize is given at least one transcript segment, the speakingPercentage
\* of the returned participants add up to 99, 100 or 101.
C11_PercentageSum ==
    (result # NoResult /\ Len(transcriptSegments) >= 1)
    => SumPercentages(result.participants, 1) \in {99, 100, 101}

HandledIn(before, after) ==
    IF before.pc \in {"idle", "none"} THEN after.handled
    ELSE SubSeq(after.handled, Len(before.handled) + 1, Len(after.handled))

\* the events an operation emits in a step
EmittedIn(before, after) ==
    IF before.pc \in {"idle", "none"} THEN after.events
    ELSE SubSeq(after.events, Len(before.events) + 1, Len(after.events))

\* every handler registered for a type was called once for each event of that type,
\* and no throw left emit
EachHandlerOnce(before, after) ==
    /\ ~after.escaped
    /\ \A type \in EventTypes, handler \in Handlers :
           LET IsCall(h) == h.handler = handler /\ h.type = type
               IsEvent(e) == e.type = type
           IN  Len(SelectSeq(HandledIn(before, after), IsCall))
                   = IF IsListening(type, handler)
                     THEN Len(SelectSeq(EmittedIn(before, after), IsEvent))
                     ELSE 0

\* C13: in every step of a start(), a stop() or a processFrame, each handler
\* registered for the type of an emitted event is called exactly once for it, also
\* when a handler registered for that type throws, and no throw of a handler leaves
\* emit into the call.
C13_HandlersIsolated ==
    [][/\ \A t \in Calls :
             (calls'[t] # calls[t] /\ calls'[t].op \in {"start", "stop"})
             => EachHandlerOnce(calls[t], calls'[t])
       /\ \A f \in Frames :
             frames'[f] # frames[f] => EachHandlerOnce(frames[f], frames'[f])]_vars

\* a stop() has returned its review although the handler called first for an event
\* threw; the handler registered after it was called for the same event
C13_Witness ==
    \E t \in Calls :
        /\ calls[t].op = "stop" /\ calls[t].outcome = "review"
        /\ \E i \in 1..(Len(calls[t].handled) - 1) :
               /\ calls[t].handled[i].handler = "bad"
               /\ calls[t].handled[i + 1].handler = "last"
               /\ calls[t].handled[i + 1].type = calls[t].handled[i].type
               /\ calls[t].handled[i + 1].data = calls[t].handled[i].data

C15_NotReadyFrames ==
    [][\A f \in Frames :
          (frames[f].pc = "none" /\ frames'[f].pc # "none"
              /\ faceDetection \in {"noop", "unready"})
          => /\ frames'[f].pc \in {"done", "rejected"}
             /\ frames'[f].analyzed = 0
             /\ frames'[f].events = <<>>
             /\ UNCHANGED <<observations, state, calls>>]_vars

\* two frames have arrived in a capturing session, no face detection was injected
C15_Witness ==
    /\ faceDetection = "noop"
    /\ state.status = "capturing"
    /\ \A f \in Frames : frames[f].pc = "done" /\ frames[f].analyzed = 0

\* C16: a stop() made while the status is idle, complete or error returns null in
\* its first step: state, config, the audio path, the ticker, the capture, the
\* observation buffer and every call in flight are as before, the call has emitted
\* nothing and called no handler, and it has reached no await of a collaborator.
C16_InactiveStop ==
    [][\A t \in Calls :
          (calls[t].op = "none" /\ calls'[t].op = "stop"
              /\ state.status \in {"idle", "complete", "error"})
          => /\ calls'[t].pc = "done" /\ calls'[t].outcome = "null"
             /\ calls'[t].events = <<>> /\ calls'[t].handled = <<>>
             /\ UNCHANGED <<state, config, audioFilePath, durationTimer, timers,
                            captureCleanup, apiKey, observations, frames>>
             /\ \A u \in Calls \ {t} : InFlight(u) => calls'[u] = calls[u]]_vars

\* a stop() has returned null without an event after the session completed with a
\* review
C16_Witness ==
    \E t \in Calls :
        /\ calls[t].op = "stop" /\ calls[t].outcome = "null" /\ calls[t].events = <<>>
        /\ state.status = "complete" /\ state.reviewId # NoReview

\* the awaits of stop() inside its bot block (lines 162-185)
BotAwaits == {"awaitStopBot", "awaitStatus", "sleep", "awaitRecording", "awaitTranscript"}

\* C17: a step of stop() that starts at an await of its bot block, whatever the bot
\* call did, either stays in the bot block without a status change or leaves it with
\* the status going to transcribing (and on to analyzing when there is no audio to
\* transcribe); it never ends the call, sets no error and emits no error event; when
\* it leaves through the catch of the bot block the transcript is empty; and a
\* stop() whose bot block failed returns its review unless its later reading of the
\* face detection throws.
C17_BotFailureTolerated ==
    /\ [][\A t \in Calls :
             (calls[t].op = "stop" /\ calls[t].pc \in BotAwaits /\ calls'[t] # calls[t])
             => /\ state'.error = state.error
                /\ \A i \in 1..Len(Emitted(t)) : Emitted(t)[i].type # "error"
                /\ \/ calls'[t].pc \in BotAwaits /\ Emitted(t) = <<>>
                      /\ state'.status = state.status
                   \/ calls'[t].pc = "awaitWhisper" /\ state'.status = "transcribing"
                      /\ Tail(StatusPath(t)) = <<"transcribing">>
                   \/ calls'[t].pc = "awaitDiarize" /\ state'.status = "analyzing"
                      /\ Tail(StatusPath(t)) = <<"transcribing", "analyzing">>
                /\ (calls'[t].botFailed /\ ~calls[t].botFailed)
                       => calls'[t].transcript = "none"]_vars
    /\ [](\A t \in Calls :
             (calls[t].op = "stop" /\ calls[t].botFailed /\ calls[t].pc = "done")
             => (calls[t].outcome = "review" \/ calls[t].message = FaceMessage))

\* a stop() whose bot block failed has returned its review, status complete
C17_Witness ==
    \E t \in Calls :
        /\ calls[t].op = "stop" /\ calls[t].botFailed
        /\ calls[t].outcome = "review" /\ state.status = "complete"

\* C18: a stop() waits for transcribeFile only when the bot block left no transcript
\* segments, and a transcript the bot returned with segments is still the call's
\* transcript when diarize is awaited.
C18_TranscriptionFallback ==
    /\ [](\A t \in Calls :
             (calls[t].op = "stop" /\ calls[t].pc = "awaitWhisper")
             => calls[t].transcript # "bot")
    /\ [][\A t \in Calls :
             (calls[t].op = "stop" /\ calls[t].transcript = "bot"
                 /\ calls'[t].pc = "awaitDiarize")
             => calls'[t].transcript = "bot"]_vars

\* C19: whenever the latest status query of a stop() has answered done, error or
\* fatal, the polling loop has returned: the call is at its getRecording, not asleep
\* before a further query.
C19_TerminalCodes ==
    \A t \in Calls :
        (calls[t].op = "stop" /\ calls[t].status \in {"done", "error", "fatal"})
        => calls[t].pc = "awaitRecording"

\* C20: with status queries that answer at once, a stop() makes its k-th status query
\* 3000 ms * (k - 1) after the loop began, so never more than 40; each sleep adds
\* 3000 ms; a query that throws or answers with a code that does not end the loop
\* leads to the sleep and changes nothing else; the wake after the 40th query
\* leaves the loop for getRecording, and from there the call goes on to
\* getTranscript or to the status transcribing.
C20_BoundedPolling ==
    /\ [](\A t \in Calls :
             (calls[t].op = "stop" /\ calls[t].pc \in {"awaitStatus", "sleep"})
             => /\ calls[t].queries <= 40
                /\ calls[t].elapsed
                       = 3000 * (calls[t].queries - (IF calls[t].pc = "sleep" THEN 1 ELSE 0))
                /\ calls[t].elapsed < 120000)
    /\ [][\A t \in Calls :
             /\ (calls[t].op = "stop" /\ calls[t].pc = "awaitStatus"
                     /\ calls'[t] # calls[t])
                => /\ calls'[t].queries = calls[t].queries + 1
                   /\ calls'[t].status \notin {"done", "error"} => calls'[t].pc = "sleep"
                   /\ calls'[t].pc \in {"sleep", "awaitRecording"}
                   /\ Emitted(t) = <<>> /\ ~calls'[t].botFailed
                   /\ UNCHANGED <<state, audioFilePath>>
             /\ (calls[t].op = "stop" /\ calls[t].pc = "sleep" /\ calls'[t] # calls[t])
                => /\ calls'[t].elapsed = calls[t].elapsed + 3000
                   /\ calls'[t].pc = IF calls[t].queries < 40 THEN "awaitStatus"
                                     ELSE "awaitRecording"
                   /\ Emitted(t) = <<>>
                   /\ UNCHANGED <<state, audioFilePath>>
             /\ (calls[t].op = "stop" /\ calls[t].pc = "awaitRecording"
                     /\ calls'[t] # calls[t])
                => /\ calls'[t].pc \in {"awaitTranscript", "awaitWhisper", "awaitDiarize"}
                   /\ calls'[t].pc # "awaitTranscript"
                          => state'.status \in {"transcribing", "analyzing"}]_vars

\* the polling loop of a stop() has ended by the ceiling after 40 status queries, the
\* last of which threw
C20_Witness ==
    \E t \in Calls :
        /\ calls[t].op = "stop" /\ calls[t].pc = "awaitRecording"
        /\ calls[t].queries = 40 /\ calls[t].elapsed = 120000
        /\ calls[t].status = "throws"

\* C21: a step of stop() that starts at the await of an upload, whether the upload
\* returned or threw, emits nothing and leaves state as it was, and ends at the next
\* upload or at the return of storeMeetingInMoltbook; the step after that return
\* sets status complete, emits status_changed and review_ready and returns the
\* review; so a stop() whose upload failed has returned its review without an error
\* event.
C21_StoreFailureTolerated ==
    /\ [][\A t \in Calls :
             /\ (calls[t].op = "stop" /\ calls[t].pc = "awaitUpload"
                     /\ calls'[t] # calls[t])
                => /\ calls'[t].pc \in {"awaitUpload", "awaitStore"}
                   /\ Emitted(t) = <<>>
                   /\ state' = state
             /\ (calls[t].op = "stop" /\ calls[t].pc = "awaitStore"
                     /\ calls'[t] # calls[t])
                => /\ calls'[t].pc = "done" /\ calls'[t].outcome = "review"
                   /\ state'.status = "complete" /\ state'.error = state.error
                   /\ Emitted(t) = <<[type |-> "status_changed", data |-> "complete"],
                                     [type |-> "review_ready", data |-> calls[t].review]>>]_vars
    /\ [](\A t \in Calls :
             (calls[t].op = "stop" /\ calls[t].storeFailed /\ calls[t].pc = "done")
             => /\ calls[t].outcome = "review"
                /\ CountEvents(calls[t].events, "error") = 0
                /\ CountEvents(calls[t].events, "review_ready") = 1)

\* a stop() whose upload threw has returned its review, status complete
C21_Witness ==
    \E t \in Calls :
        /\ calls[t].op = "stop" /\ calls[t].storeFailed
        /\ calls[t].outcome = "review" /\ calls[t].pc = "done"
        /\ state.status = "complete" /\ state.error = NoError

\* the stop() of the first session has its review and has not yet returned
C22_ReviewGenerated ==
    /\ calls[2].op = "stop"
    /\ calls[2].pc \in {"awaitUpload", "awaitStore"}

\* C22: when the knowledge store need not answer, the stop() of the first session,
\* once generateReview has returned, still reaches status complete and returns the
\* review.
C22_StoreCannotStall ==
    C22_ReviewGenerated ~> (/\ calls[2].pc = "done"
                            /\ calls[2].outcome = "review"
                            /\ state.status = "complete")

\* the status a handler reads now from the event data it was handed in a call that
\* is still the latest: the status of this.state when the data is that object
StatusRead(h) == IF h.isState THEN state.status ELSE h.data

\* C23: the data of every status_changed event a handler was handed still shows the
\* status it showed when it was handed out.
C23_Snapshots ==
    \A t \in Calls :
        \A i \in 1..Len(calls[t].handled) :
            calls[t].handled[i].type = "status_changed"
            => StatusRead(calls[t].handled[i]) = calls[t].handled[i].data

\* C24: when the stop() of a session has returned, with its review or with null
\* after an error, and no frame is still being processed, the visual-observation
\* buffer is empty.
C24_BufferDiscarded ==
    \A t \in Calls :
        (/\ calls[t].op = "stop" /\ calls[t].pc = "done" /\ calls[t].events # <<>>
         /\ \A f \in Frames : frames[f].pc # "awaitAnalyze")
        => observations = <<>>

\* C25: every call of transcribeFile calls the local engine first exactly when
\* `ready` was set, calls the remote engine only when `ready` was not set or the
\* local engine threw, never throws, and when the remote engine failed or answered
\* without segments it has returned a result with no segments.
C25_TranscribeFile ==
    \A i \in 1..Len(transcription.runs) :
        LET run == transcription.runs[i]
        IN  /\ run.engines \in {<<"local">>, <<"cloud">>, <<"local", "cloud">>}
            /\ run.engines[1] = "local" <=> run.wasReady
            /\ (\E k \in 1..Len(run.engines) : run.engines[k] = "cloud")
                   <=> (~run.wasReady \/ run.localThrew)
            /\ run.outcome # "throws"
            /\ run.pc = "done" => run.outcome = "result"
            /\ run.cloudFailed => (run.outcome = "result" /\ run.segments = 0)

\* a call made with `ready` set, whose local engine threw and whose remote engine
\* failed, has returned a result with no segments
C25_Witness ==
    \E i \in 1..Len(transcription.runs) :
        /\ transcription.runs[i].engines = <<"local", "cloud">>
        /\ transcription.runs[i].cloudFailed
        /\ transcription.runs[i].outcome = "result"
        /\ transcription.runs[i].segments = 0

\* the observations of participant p
Seen(p) == {i \in 1..Len(AllVisual) : AllVisual[i].participantId = p}

\* the first of the observations S in time order
First(S) == CHOOSE i \in S : \A j \in S \ {i} : Before(i, j)

\* the observations of p that carry a name
NamedSeen(p) == {i \in Seen(p) : AllVisual[i].participantName # NoName}

\* the place of p among the participants without a carried name, by first observation
UnnamedRank(p) ==
    Cardinality({q \in NamePids :
                    /\ Seen(q) # {} /\ NamedSeen(q) = {}
                    /\ (q = p \/ Before(First(Seen(q)), First(Seen(p))))})

\* C26: the speaker-name map has exactly one entry for each participantId of the
\* observations and no other: the name of the participant's first named observation
\* in time order if it has one; else, with k its place among the participants
\* without a named observation in order of their first observation, the k-th entry
\* of participantNames if there is one, else 'Participant N' with N = k minus the
\* length of participantNames.
C26_SpeakerNames ==
    result # NoResult
    => LET m == result.speakerNameMap
       IN  /\ \A j \in 1..Len(m) : Seen(m[j][1]) # {}
           /\ \A p \in NamePids :
                  Seen(p) # {}
                  => /\ Cardinality({j \in 1..Len(m) : m[j][1] = p}) = 1
                     /\ \A j \in 1..Len(m) :
                            m[j][1] = p
                            => m[j][2] =
                                  IF NamedSeen(p) # {}
                                  THEN AllVisual[First(NamedSeen(p))].participantName
                                  ELSE IF UnnamedRank(p) <= Len(participantNames)
                                  THEN participantNames[UnnamedRank(p)]
                                  ELSE participantN(UnnamedRank(p) - Len(participantNames))

\* the map was built with a carried name, a known name and a synthesized name, from
\* observations that were not handed in in time order
C26_Witness ==
    /\ result # NoResult
    /\ Len(participantNames) = 1
    /\ \E j, k, l \in 1..Len(result.speakerNameMap) :
           /\ result.speakerNameMap[j][2] = "Ann"
           /\ result.speakerNameMap[k][2] = participantNames[1]
           /\ result.speakerNameMap[l][2] = "Participant 1"
    /\ AllVisual[1].timestamp > AllVisual[2].timestamp

\* C27, first part: a segment whose window holds no speaking observation and whose
\* label is missing or not in the label map has speakerId 'unknown' and as
\* speakerName its label, or 'Unknown' without label.
UnknownAttribution ==
    result # NoResult
    => \A i \in 1..Len(transcriptSegments) :
           LET seg == transcriptSegments[i]
           IN  (/\ SpeakingIn(seg) = {}
                /\ (seg.speakerLabel = NoLabel \/ SpeakingInLabel(seg.speakerLabel) = {}))
               => /\ Diarized(i).speakerId = "unknown"
                  /\ Diarized(i).speakerName =
                         IF seg.speakerLabel # NoLabel THEN seg.speakerLabel
                         ELSE "Unknown"

\* C27: the first part, and every diarized segment with visualMatch false has the
\* confidence of its transcript segment, or 0.5 when that segment has none.
C27_UnknownSpeaker ==
    /\ UnknownAttribution
    /\ result # NoResult
       => \A i \in 1..Len(transcriptSegments) :
              ~Diarized(i).visualMatch
              => Diarized(i).confidence =
                     IF transcriptSegments[i].confidence # NoConfidence
                     THEN transcriptSegments[i].confidence
                     ELSE 5

\* the observations in the window of the only transcript segment
Overlapping ==
    {i \in 1..Len(AllVisual) :
        /\ AllVisual[i].timestamp >= transcriptSegments[1].startTime
        /\ AllVisual[i].timestamp <= transcriptSegments[1].endTime}

WithExpression(e) == {i \in Overlapping : AllVisual[i].expression = e}

ExpressionsSeen == {AllVisual[i].expression : i \in Overlapping}

RECURSIVE SumExpressionConfidence(_)
SumExpressionConfidence(S) ==
    IF S = {} THEN 0
    ELSE LET i == CHOOSE i \in S : TRUE
         IN  AllVisual[i].expressionConfidence + SumExpressionConfidence(S \ {i})

LooksAway(i) ==
    \/ AllVisual[i].headPose.yaw > 30 \/ AllVisual[i].headPose.yaw < 0 - 30
    \/ AllVisual[i].headPose.pitch > 20 \/ AllVisual[i].headPose.pitch < 0 - 20

\* twice the contribution of observation i to the engagement score
TwiceContribution(i) ==
    (IF AllVisual[i].headPose = NoPose THEN 1
     ELSE IF LooksAway(i) THEN 0 - 2 ELSE 2)
    + (IF AllVisual[i].expression \notin {"neutral", "bored"} THEN 1 ELSE 0)
    + (IF AllVisual[i].isSpeaking THEN 2 ELSE 0)

RECURSIVE TwiceScore(_)
TwiceScore(S) ==
    IF S = {} THEN 0
    ELSE LET i == CHOOSE i \in S : TRUE
         IN  TwiceContribution(i) + TwiceScore(S \ {i})

\* C29: the engagement of a segment is medium when no observation falls in its
\* window; otherwise, with each observation contributing +1 for a head pose that
\* does not look away, -1 for one that does, +0.5 without head pose, +0.5 for an
\* expression other than neutral and bored and +1 when speaking, it is high when the
\* mean contribution is above 1.0, medium when it is above 0.3, low otherwise.
C29_Engagement ==
    result # NoResult
    => LET n == Cardinality(Overlapping)
           twice == TwiceScore(Overlapping)
       IN  result.segments[1].engagement =
               IF n = 0 THEN "medium"
               ELSE IF twice > 2 * n THEN "high"
               ELSE IF 10 * twice > 6 * n THEN "medium"
               ELSE "low"

\* a segment was diarized with three observations in its window, one of them looking
\* away by its pitch only, and a mean contribution of one third
C29_Witness ==
    /\ result # NoResult
    /\ Cardinality(Overlapping) = 3
    /\ TwiceScore(Overlapping) = 2
    /\ result.segments[1].engagement = "medium"
    /\ \E i \in Overlapping :
           /\ AllVisual[i].headPose # NoPose
           /\ AllVisual[i].headPose.pitch > 20
           /\ AllVisual[i].headPose.yaw <= 30

\* the number of words of a text: the places where a run of non-blank characters
\* ends
Words(text) ==
    Cardinality({i \in 1..Len(text) :
                    text[i] # " " /\ (i = Len(text) \/ text[i + 1] = " ")})

\* the output segments of speaker id
SegmentsOf(id) == {j \in 1..Len(result.segments) : result.segments[j].speakerId = id}

RECURSIVE SpeakingTimeOver(_)
SpeakingTimeOver(S) ==
    IF S = {} THEN 0
    ELSE LET j == CHOOSE j \in S : TRUE
         IN  (result.segments[j].endTime - result.segments[j].startTime)
                 + SpeakingTimeOver(S \ {j})

RECURSIVE WordsOver(_)
WordsOver(S) ==
    IF S = {} THEN 0
    ELSE LET j == CHOOSE j \in S : TRUE
         IN  Words(result.segments[j].text) + WordsOver(S \ {j})

RECURSIVE SumSegmentCounts(_, _)
SumSegmentCounts(participants, i) ==
    IF i > Len(participants) THEN 0
    ELSE participants[i].segmentCount + SumSegmentCounts(participants, i + 1)

\* C30: what diarize returns, on a first call and on a later one, has exactly one
\* participant for every speakerId of its segments and none for any other id; each
\* participant's segmentCount, totalSpeakingTime and wordCount are the number, the
\* summed length and the summed words of its segments of this call, and the
\* segmentCounts add up to the number of segments.
C30_ParticipantSummaries ==
    result # NoResult
    => LET ps == result.participants
       IN  /\ {ps[i].id : i \in 1..Len(ps)}
                  = {result.segments[j].speakerId : j \in 1..Len(result.segments)}
           /\ \A i, k \in 1..Len(ps) : ps[i].id = ps[k].id => i = k
           /\ \A i \in 1..Len(ps) :
                  /\ ps[i].segmentCount = Cardinality(SegmentsOf(ps[i].id))
                  /\ ps[i].totalSpeakingTime = SpeakingTimeOver(SegmentsOf(ps[i].id))
                  /\ ps[i].wordCount = WordsOver(SegmentsOf(ps[i].id))
           /\ SumSegmentCounts(ps, 1) = Len(result.segments)

\* diarize has returned a second time, for three segments of two speakers; one
\* speaker has two segments of different lengths, one of them with the text that
\* starts with a blank and has two blanks in a row
C30_Witness ==
    /\ previous # NoResult
    /\ result # NoResult
    /\ Len(result.segments) = 3
    /\ Len(result.participants) = 2
    /\ \E i \in 1..2 :
           /\ result.participants[i].segmentCount = 2
           /\ result.participants[i].totalSpeakingTime > 0
           /\ result.participants[i].wordCount = 3
           /\ \E j \in SegmentsOf(result.participants[i].id) :
                  result.segments[j].text = textAt(3)

\* the segments of the result with a visual match
Matched == {j \in 1..Len(result.segments) : result.segments[j].visualMatch}

\* C31: the quality of a result is high when more than 7 in 10 of its segments have a
\* visual match, medium when more than 3 in 10, low otherwise and for no segments;
\* its duration is the endTime of the last segment in start-time order minus the
\* startTime of the first, 0 for no segments, and is not negative.
C31_QualityAndDuration ==
    result # NoResult
    => LET n == Len(result.segments)
           m == Cardinality(Matched)
       IN  /\ \A j \in 1..(n - 1) :
                  result.segments[j].startTime <= result.segments[j + 1].startTime
           /\ result.quality =
                  IF n = 0 THEN "low"
                  ELSE IF 10 * m > 7 * n THEN "high"
                  ELSE IF 10 * m > 3 * n THEN "medium"
                  ELSE "low"
           /\ result.duration =
                  IF n = 0 THEN 0
                  ELSE result.segments[n].endTime - result.segments[1].startTime
           /\ result.duration >= 0

\* three segments handed in out of start-time order were diarized, two of them with a
\* visual match; the last in start-time order ends before an earlier one does
C31_Witness ==
    /\ result # NoResult
    /\ Len(result.segments) = 3
    /\ Cardinality(Matched) = 2
    /\ result.quality = "medium"
    /\ transcriptSegments[1].startTime > transcriptSegments[2].startTime
    /\ result.segments[3].endTime < result.segments[1].endTime
    /\ result.duration > 0

\* the name the speaker-name map of the call gives participant id
NameMapped(id) ==
    LET nameMap == buildSpeakerNameMap(sortVisual(AllVisual), participantNames)
    IN  IF MapHas(nameMap, id) THEN MapGet(nameMap, id) ELSE NoName

\* C38: in a result, every segment attributed to a speakerId other than 'unknown'
\* carries the name the speaker-name map gives that participant, so all segments of
\* one speakerId carry one name, and the participant entry of that speakerId carries
\* it too.
C38_OneNamePerSpeaker ==
    result # NoResult
    => /\ \A j \in 1..Len(result.segments) :
              result.segments[j].speakerId # "unknown"
              => result.segments[j].speakerName
                     = NameMapped(result.segments[j].speakerId)
       /\ \A j, k \in 1..Len(result.segments) :
              (/\ result.segments[j].speakerId # "unknown"
               /\ result.segments[j].speakerId = result.segments[k].speakerId)
              => result.segments[j].speakerName = result.segments[k].speakerName
       /\ \A i \in 1..Len(result.participants) :
              result.participants[i].id # "unknown"
              => result.participants[i].name = NameMapped(result.participants[i].id)

\* participant pid carries name on one of its own observations
CarriesName(pid, name) ==
    \E i \in 1..Len(AllVisual) :
        AllVisual[i].participantId = pid /\ AllVisual[i].participantName = name

\* C39: when the known names are pairwise distinct, the speaker-name map gives one
\* name to two participants only if both carry it on their own observations.
C39_NamesNotShared ==
    (/\ result # NoResult
     /\ \A a, b \in 1..Len(participantNames) :
            participantNames[a] = participantNames[b] => a = b)
    => \A i, k \in 1..Len(result.speakerNameMap) :
           (i # k /\ result.speakerNameMap[i][2] = result.speakerNameMap[k][2])
           => /\ CarriesName(result.speakerNameMap[i][1], result.speakerNameMap[i][2])
              /\ CarriesName(result.speakerNameMap[k][1], result.speakerNameMap[k][2])

\* the result of diarizing the transcript with every buffered observation once
CountedOnce == diarize(<<>>, transcriptSegments, observations, participantNames)

\* what C40 compares of a segment
Attribution(seg) ==
    [speakerId |-> seg.speakerId, speakerName |-> seg.speakerName,
     visualMatch |-> seg.visualMatch, dominantExpression |-> seg.dominantExpression,
     expressions |-> seg.expressions, engagement |-> seg.engagement]

\* C40: the result stop obtains from diarize, which sees every buffered observation
\* twice, has for every segment the speakerId, speakerName, visualMatch, dominant
\* expression, distribution and engagement, and has the participants and the
\* quality, of the result with every buffered observation counted once.
C40_BufferPassedTwice ==
    result # NoResult
    => /\ Len(result.segments) = Len(CountedOnce.segments)
       /\ \A j \in 1..Len(result.segments) :
              Attribution(result.segments[j]) = Attribution(CountedOnce.segments[j])
       /\ result.participants = CountedOnce.participants
       /\ result.quality = CountedOnce.quality

\* stop diarized two segments over a buffer of two observations of two participants
\* speaking at one time, one of them with an expression; one segment has a visual
\* match, the other is attributed through its label
C40_Witness ==
    /\ result # NoResult
    /\ Len(observations) = 2
    /\ visualObservations = observations
    /\ observations[1].participantId # observations[2].participantId
    /\ observations[1].timestamp = observations[2].timestamp
    /\ observations[1].isSpeaking /\ observations[2].isSpeaking
    /\ observations[1].expression # observations[2].expression
    /\ Len(result.segments) = 2
    /\ \E j, k \in 1..2 :
           /\ result.segments[j].visualMatch
           /\ ~result.segments[k].visualMatch
           /\ result.segments[k].speakerId # "unknown"

\* the stages stop() sets, and the two ends of a session
StopStages ==
    {"bot_processing", "transcribing", "analyzing", "generating_review", "complete",
     "error"}

\* C32: in every interleaving of start() and stop() calls, once the status of a
\* session is bot_processing or a later stage, no step sets it to capturing (a new
\* session passes through bot_joining first).
C32_NeverBackToCapturing ==
    [][state.status \in StopStages => state'.status # "capturing"]_vars

\* C33: when a session that deployed a bot reaches complete or error, in any
\* interleaving of start() and stop() calls, a stop() call has called stopBot with
\* the id of that bot.
C33_BotToldToLeave ==
    [][(/\ state'.status \in {"complete", "error"}
        /\ state.status \notin {"complete", "error"}
        /\ state'.botId # NoBot)
       => \E u \in Calls : calls'[u].op = "stop" /\ calls'[u].left = state'.botId]_vars

\* stop call t has obtained a review from the Review Generator
Reviewed(t) == calls[t].op = "stop" /\ calls[t].review # NoReview

\* stop call t has emitted review_ready
AnnouncedReview(t) ==
    /\ calls[t].op = "stop"
    /\ \E i \in 1..Len(calls[t].events) : calls[t].events[i].type = "review_ready"

\* C34: of the stop() calls of one session (the calls on record between two
\* successful start() calls) at most one obtains a review and at most one emits
\* review_ready.
C34_OneReview ==
    \A u, v \in Calls :
        u # v => /\ ~(Reviewed(u) /\ Reviewed(v))
                 /\ ~(AnnouncedReview(u) /\ AnnouncedReview(v))

\* C35: at most one duration ticker exists at any time, and none is running when the
\* status is idle, complete or error and no start() or stop() is in flight.
C35_OneTicker ==
    /\ Cardinality(timers) <= 1
    /\ (state.status \in Terminal /\ NoneInFlight) => timers = {}

\* C36: while capture is halted (stop() has called the cleanup of the frame listener,
\* or no capture was started) no step appends an observation to the buffer: a frame
\* still in analysis when stop() began adds none, neither to the buffer the
\* diarization of its session reads nor to the buffer of a later session.
C36_NoLateObservation ==
    [][~captureCleanup => Len(observations') <= Len(observations)]_vars

\* C37: the known names a stop() call hands to diarize are the participantNames of
\* the config the session it ends was started with, in every interleaving of calls.
C37_SessionNames ==
    [][\A t \in Calls :
           (/\ calls'[t].op = "stop"
            /\ calls'[t].pc = "awaitDiarize"
            /\ calls[t].pc # "awaitDiarize")
           => calls'[t].knownNames = state'.startedWith]_vars

====
